---- MODULE Spec2Model ----
(***************************************************************************)
(* Leucine Narration Maker (src/src/App.jsx): the upload handler, the      *)
(* per-definition extraction engine (processWorkflow) and the formatter    *)
(* library, as a state machine.                                            *)
(*                                                                         *)
(* Representation.  A JavaScript string the code only copies is a TLA+     *)
(* string.  A string the code inspects character by character (a regular   *)
(* expression, startsWith, split, toUpperCase, Number) is a sequence of    *)
(* one-character strings, turned into text by Str.  An optional field is   *)
(* a sequence of length 0 (absent) or 1 (present).                         *)
(***************************************************************************)
EXTENDS Integers, Sequences, FiniteSets, TLC

VARIABLES
    rows,         \* useState([]) of line 78: the published record list
    loading,      \* useState(false) of line 79
    toast,        \* useState(null) of line 82
    pc,           \* per handleFileUpload call: where the async handler stands
    file,         \* per call: the File argument
    jsonObjects,  \* per call: the local jsonObjects of line 138
    zipPos,       \* per call: index of the archive entry being read
    csvRows,      \* per call: the local csvRows of line 154, before the partition
    key,          \* formatter harness: the code handed to the formatter
    passes,       \* formatter harness: the results of successive formatKey passes
    displayed     \* formatter harness: what the four formatters return for the code

vars ==
    <<rows, loading, toast, pc, file, jsonObjects, zipPos, csvRows, key, passes, displayed>>

uploadVars == <<rows, loading, toast, pc, file, jsonObjects, zipPos, csvRows>>

fmtVars == <<key, passes, displayed>>

(***************************************************************************)
(* Bounds of the model.                                                    *)
(***************************************************************************)
MaxKeyLen == 3

MaxPasses == 2

(***************************************************************************)
(* Characters and character sequences.                                     *)
(***************************************************************************)
UpperChars == <<"A","B","C","D","E","F","G","H","I","J","K","L","M",
                "N","O","P","Q","R","S","T","U","V","W","X","Y","Z">>

LowerChars == <<"a","b","c","d","e","f","g","h","i","j","k","l","m",
                "n","o","p","q","r","s","t","u","v","w","x","y","z">>

DigitChars == <<"0","1","2","3","4","5","6","7","8","9">>

Range(s) == {s[i] : i \in 1..Len(s)}

IsUpper(c) == c \in Range(UpperChars)

IsLower(c) == c \in Range(LowerChars)

IsDigit(c) == c \in Range(DigitChars)

\* \w of a JavaScript regular expression: [A-Za-z0-9_]
IsWordChar(c) == IsUpper(c) \/ IsLower(c) \/ IsDigit(c) \/ c = "_"

\* \s of a JavaScript regular expression, over the characters of the model
IsSpace(c) == c \in {" ", "\t", "\n"}

IndexOf(c, s) == CHOOSE i \in 1..Len(s) : s[i] = c

toLowerChar(c) == IF IsUpper(c) THEN LowerChars[IndexOf(c, UpperChars)] ELSE c

toUpperChar(c) == IF IsLower(c) THEN UpperChars[IndexOf(c, LowerChars)] ELSE c

toLowerCase(s) == [i \in 1..Len(s) |-> toLowerChar(s[i])]

toUpperCase(s) == [i \in 1..Len(s) |-> toUpperChar(s[i])]

\* The two halves of a sequence of two elements or more.
FirstHalf(s) == SubSeq(s, 1, Len(s) \div 2)

SecondHalf(s) == SubSeq(s, Len(s) \div 2 + 1, Len(s))

\* Array.prototype.join on texts.
RECURSIVE Join(_, _)
Join(parts, sep) ==
    IF parts = <<>> THEN ""
    ELSE IF Len(parts) = 1 THEN parts[1]
    ELSE Join(FirstHalf(parts), sep) \o sep \o Join(SecondHalf(parts), sep)

\* The text of a character sequence.
Str(s) == Join(s, "")

\* Array.prototype.flat: the concatenation of a sequence of sequences.
RECURSIVE Flatten(_)
Flatten(ss) ==
    IF ss = <<>> THEN <<>>
    ELSE IF Len(ss) = 1 THEN ss[1]
    ELSE Flatten(FirstHalf(ss)) \o Flatten(SecondHalf(ss))

(***************************************************************************)
(* formatKey, lines 65-74, one operator per chained call.                  *)
(***************************************************************************)
\* .replace(/([A-Z])/g, " $1")
SpaceBeforeCapitals(s) ==
    Flatten([i \in 1..Len(s) |-> IF IsUpper(s[i]) THEN <<" ", s[i]>> ELSE <<s[i]>>])

\* .replace(/_/g, " ")
UnderscoreToSpace(s) == [i \in 1..Len(s) |-> IF s[i] = "_" THEN " " ELSE s[i]]

\* .replace(/\s+/g, " "): every run of white space becomes one space
CollapseWhitespace(s) ==
    Flatten([i \in 1..Len(s) |->
                IF ~IsSpace(s[i]) THEN <<s[i]>>
                ELSE IF i > 1 /\ IsSpace(s[i - 1]) THEN <<>>
                ELSE <<" ">>])

\* the text from its first character that is not white space
TrimStart(s) ==
    IF \A i \in 1..Len(s) : IsSpace(s[i]) THEN <<>>
    ELSE SubSeq(s, CHOOSE i \in 1..Len(s) :
                       ~IsSpace(s[i]) /\ \A j \in 1..(i - 1) : IsSpace(s[j]),
                Len(s))

\* the text up to its last character that is not white space
TrimEnd(s) ==
    IF \A i \in 1..Len(s) : IsSpace(s[i]) THEN <<>>
    ELSE SubSeq(s, 1, CHOOSE i \in 1..Len(s) :
                          ~IsSpace(s[i]) /\ \A j \in (i + 1)..Len(s) : IsSpace(s[j]))

\* .trim()
Trim(s) == TrimEnd(TrimStart(s))

\* .replace(/^\w/, (c) => c.toUpperCase())
CapitalizeFirst(s) ==
    IF s # <<>> /\ IsWordChar(Head(s)) THEN <<toUpperChar(Head(s))>> \o Tail(s) ELSE s

formatKey_NoTrim(k) ==
    IF k = <<>> THEN <<>>
    ELSE CapitalizeFirst(toLowerCase(CollapseWhitespace(UnderscoreToSpace(
             SpaceBeforeCapitals(k)))))

formatKey(k) ==
    IF k = <<>> THEN <<>>
    ELSE CapitalizeFirst(toLowerCase(Trim(CollapseWhitespace(UnderscoreToSpace(
             SpaceBeforeCapitals(k))))))

(***************************************************************************)
(* JavaScript values.                                                      *)
(***************************************************************************)
None == <<>>

Some(x) == <<x>>

\* x || [] and x?.forEach: the elements of an optional array
OptSeq(o) == IF o = None THEN <<>> ELSE o[1]

\* Truthiness of an optional text and of an optional character sequence.
TruthyText(o) == o # None /\ o[1] # ""

TruthyChars(o) == o # None /\ o[1] # <<>>

\* `${x}` of an optional text: undefined prints as "undefined".
Tpl(o) == IF o = None THEN "undefined" ELSE o[1]

\* A task identifier as JSON holds it: a number, a string, or absent.
IdNum(n) == [t |-> "number", n |-> n, s |-> <<>>]

IdStr(cs) == [t |-> "string", n |-> 0, s |-> cs]

IdUndefined == [t |-> "undefined", n |-> 0, s |-> <<>>]

\* The result of Number(x): an integer or NaN.
NumInt(n) == [nan |-> FALSE, n |-> n]

NumNaN == [nan |-> TRUE, n |-> 0]

RECURSIVE DecimalValue(_)
DecimalValue(cs) ==
    IF cs = <<>> THEN 0
    ELSE 10 * DecimalValue(SubSeq(cs, 1, Len(cs) - 1))
         + (IndexOf(cs[Len(cs)], DigitChars) - 1)

\* Number(string) over the strings of the model (digits, letters,
\* white space): white space is trimmed, the empty string is 0, a run of
\* decimal digits is its value, anything else is NaN.  The identifiers of
\* the model hold no sign, point, exponent or radix prefix.
StringToNumber(cs) ==
    LET t == Trim(cs)
    IN  IF \A i \in 1..Len(t) : IsDigit(t[i]) THEN NumInt(DecimalValue(t)) ELSE NumNaN

\* Number(x)
Number(v) ==
    CASE v.t = "number" -> NumInt(v.n)
      [] v.t = "string" -> StringToNumber(v.s)
      [] OTHER -> NumNaN

NumberToString(x) == IF x.nan THEN "NaN" ELSE ToString(x.n)

\* String(x)
String(v) ==
    CASE v.t = "number" -> ToString(v.n)
      [] v.t = "string" -> Str(v.s)
      [] OTHER -> "undefined"

\* obj[x]: a plain object's property key is the text of x
PropertyKey(v) == String(v)

\* Truthiness of an identifier: 0, "" and undefined are falsy.
TruthyId(v) ==
    CASE v.t = "number" -> v.n # 0
      [] v.t = "string" -> v.s # <<>>
      [] OTHER -> FALSE

(***************************************************************************)
(* Plain objects used as lookup tables.  A table is the sequence of the    *)
(* assignments table[key] = value made to it, in the order they are made;  *)
(* reading a key gives the value of the last assignment to it.             *)
(***************************************************************************)
EmptyMap == <<>>

\* table[key] = value
Entry(k, v) == [key |-> k, value |-> v]

\* key in table
HasKey(m, k) == \E i \in 1..Len(m) : m[i].key = k

\* table[key], for a key of the table: the value last assigned to it
Get(m, k) ==
    LET assigned == {i \in 1..Len(m) : m[i].key = k}
    IN  m[CHOOSE i \in assigned : \A j \in assigned : j <= i].value

\* m[k] || fallback, for tables whose values are texts
GetOr(m, k, fallback) ==
    IF ~HasKey(m, k) THEN fallback
    ELSE LET value == Get(m, k) IN IF value # "" THEN value ELSE fallback

(***************************************************************************)
(* Task Position Index: taskMap of lines 188-205 and lookupTask of         *)
(* lines 208-210.                                                          *)
(***************************************************************************)
taskInfoOf(stage, stageIdx, task, taskIdx) ==
    [ taskName   |-> task.name,
      stageName  |-> stage.name,
      stageOrder |-> IF stage.orderTree = None THEN stageIdx ELSE stage.orderTree[1],
      taskOrder  |-> IF task.orderTree = None THEN taskIdx ELSE task.orderTree[1] ]

\* lines 201-203: the same info under the raw, the text and the numeric form
registerTask(id, info) ==
    << Entry(PropertyKey(id), info),
       Entry(String(id), info),
       Entry(NumberToString(Number(id)), info) >>

\* lines 192-204: forEach over the tasks of a stage
registerTasks(stage, stageIdx) ==
    Flatten([taskIdx \in 1..Len(OptSeq(stage.taskRequests)) |->
                registerTask(OptSeq(stage.taskRequests)[taskIdx].id,
                             taskInfoOf(stage, stageIdx,
                                        OptSeq(stage.taskRequests)[taskIdx], taskIdx))])

\* lines 190-205: forEach over the stages
registerStages(wf) ==
    Flatten([stageIdx \in 1..Len(OptSeq(wf.stageRequests)) |->
                registerTasks(OptSeq(wf.stageRequests)[stageIdx], stageIdx)])

\* A lookup that compares the keys of the table with the reference strictly.
lookupTask_StrictKey(taskMap, taskId) ==
    IF taskId.t = "string" /\ HasKey(taskMap, Str(taskId.s))
    THEN Some(Get(taskMap, Str(taskId.s)))
    ELSE None

\* taskMap[taskId] || taskMap[String(taskId)] || taskMap[Number(taskId)] || null
lookupTask(taskMap, taskId) ==
    IF HasKey(taskMap, PropertyKey(taskId)) THEN Some(Get(taskMap, PropertyKey(taskId)))
    ELSE IF HasKey(taskMap, String(taskId)) THEN Some(Get(taskMap, String(taskId)))
    ELSE IF HasKey(taskMap, NumberToString(Number(taskId)))
         THEN Some(Get(taskMap, NumberToString(Number(taskId))))
    ELSE None

(***************************************************************************)
(* Synthesized text.  A text the code builds from a template literal or a  *)
(* join is the sequence of its fragments, in order: the literal chunks and *)
(* the interpolated values.  The displayed string is their concatenation   *)
(* (Flat).                                                                 *)
(***************************************************************************)
Flat(t) == Join(t, "")

IsEmptyText(t) == \A i \in 1..Len(t) : t[i] = ""

\* Array.prototype.join on synthesized texts
RECURSIVE JoinT(_, _)
JoinT(texts, sep) ==
    IF texts = <<>> THEN <<>>
    ELSE IF Len(texts) = 1 THEN texts[1]
    ELSE JoinT(FirstHalf(texts), sep) \o <<sep>> \o JoinT(SecondHalf(texts), sep)

Arrow == "->"     \* stands for U+2192 of line 566

Bullet == "*"     \* stands for U+2022 of lines 635, 667, 669

NA == <<"N/A">>

EmptyText == <<>>

\* text || "N/A"
OrNA(t) == IF IsEmptyText(t) THEN NA ELSE t

(***************************************************************************)
(* Reference Index Builder: collectParam (lines 289-362), the object       *)
(* passes (lines 365-386) and the parameter gathering (lines 389-405).     *)
(* A table value "" stands for any falsy value stored (undefined, "").     *)
(***************************************************************************)
EmptyTables ==
    [ parameterMap    |-> EmptyMap,
      propertyNameMap |-> EmptyMap,
      optionMap       |-> EmptyMap,
      visibilityMap   |-> EmptyMap,
      taskMap         |-> EmptyMap ]

\* a ?? b ?? ... ?? last, over optional texts
RECURSIVE Nullish(_, _)
Nullish(opts, last) ==
    IF opts = <<>> THEN last
    ELSE IF Head(opts) # None THEN Head(opts)[1] ELSE Nullish(Tail(opts), last)

\* a || b || ... || last, over optional texts
RECURSIVE FirstTruthy(_, _)
FirstTruthy(opts, last) ==
    IF opts = <<>> THEN last
    ELSE IF TruthyText(Head(opts)) THEN Head(opts)[1] ELSE FirstTruthy(Tail(opts), last)

\* param.data read as an object: an array or an absent payload has none of
\* the named fields
dataField(param, field) ==
    IF param.data.kind = "object" THEN param.data[field] ELSE None

\* lines 294-300
optionsOf(param) ==
    IF param.data.kind = "array" THEN param.data.items
    ELSE IF dataField(param, "choices") # None THEN dataField(param, "choices")[1]
    ELSE IF dataField(param, "options") # None THEN dataField(param, "options")[1]
    ELSE <<>>

\* lines 303-305
registerOption(opt) ==
    (IF TruthyText(opt.id)
     THEN <<Entry(opt.id[1], Nullish(<<opt.name, opt.label, opt.displayName>>, opt.id[1]))>>
     ELSE <<>>)
    \o (IF TruthyText(opt.name) THEN <<Entry(opt.name[1], opt.name[1])>> ELSE <<>>)
    \o (IF TruthyText(opt.value)
        THEN <<Entry(opt.value[1],
                     Nullish(<<opt.name, opt.label, opt.displayName>>, opt.value[1]))>>
        ELSE <<>>)

\* String.prototype.startsWith
StartsWith(s, prefix) ==
    Len(s) >= Len(prefix) /\ SubSeq(s, 1, Len(prefix)) = prefix

\* Position of the first "." of s at or after position from, or Len(s) + 1.
DotFrom(s, from) ==
    IF \A i \in from..Len(s) : s[i] # "." THEN Len(s) + 1
    ELSE CHOOSE i \in from..Len(s) : s[i] = "." /\ \A j \in from..(i - 1) : s[j] # "."

\* s.split('.')[1] for an s that holds a ".": the text between its first
\* and second "."
SecondSegment(s) == SubSeq(s, DotFrom(s, 1) + 1, DotFrom(s, DotFrom(s, 1) + 1) - 1)

SearchablePrefix == <<"s","e","a","r","c","h","a","b","l","e",".">>

\* lines 310-326: the assignments to propertyNameMap for one filter field
registerFilter(filter) ==
    (IF TruthyChars(filter.field) /\ StartsWith(filter.field[1], SearchablePrefix)
     THEN IF TruthyChars(filter.displayName)
          THEN <<Entry(Str(SecondSegment(filter.field[1])), Str(filter.displayName[1]))>>
          ELSE IF TruthyChars(filter.externalId)
               THEN <<Entry(Str(SecondSegment(filter.field[1])), Str(filter.externalId[1]))>>
               ELSE <<>>
     ELSE <<>>)
    \o (IF TruthyChars(filter.displayName) /\ TruthyChars(filter.field)
        THEN <<Entry(Str(filter.field[1]), Str(filter.displayName[1]))>>
        ELSE <<>>)

\* lines 335-337, 371, 382, 398-400: the assignment to optionMap for a choice
registerChoice(choice) ==
    IF TruthyText(choice.id)
    THEN <<Entry(choice.id[1],
                 FirstTruthy(<<choice.displayName, choice.name, choice.label>>,
                             choice.id[1]))>>
    ELSE <<>>

\* lines 334-338, 370-372, 381-383, 397-401: forEach over choices
registerChoices(choices) ==
    Flatten([i \in 1..Len(choices) |-> registerChoice(choices[i])])

\* lines 331-332: the property validations of a parameter, group after group
propertyValidationsOf(param) ==
    Flatten([g \in 1..Len(OptSeq(param.validations)) |->
                OptSeq(OptSeq(param.validations)[g].propertyValidations)])

\* lines 340-345: the assignment to propertyNameMap for a property validation
registerValidatedProperty(pv) ==
    IF /\ TruthyChars(pv.propertyId)
       /\ FirstTruthy(<<pv.propertyDisplayName, pv.propertyExternalId>>, "") # ""
    THEN <<Entry(Str(pv.propertyId[1]),
                 FirstTruthy(<<pv.propertyDisplayName, pv.propertyExternalId>>, ""))>>
    ELSE <<>>

\* the filter fields of a parameter (line 309)
filterFieldsOf(param) ==
    IF dataField(param, "propertyFilters") = None THEN <<>>
    ELSE OptSeq(dataField(param, "propertyFilters")[1].fields)

\* lines 291-292: param.label, "" for an absent one
labelEntry(param) == <<Entry(param.id, IF param.label = None THEN "" ELSE param.label[1])>>

\* collectParam, lines 289-348: its assignments to parameterMap
collectLabels(param) == labelEntry(param)

\* collectParam, lines 289-348: its assignments to propertyNameMap
collectPropertyNames(param) ==
    labelEntry(param)
    \o Flatten([i \in 1..Len(filterFieldsOf(param)) |->
                   registerFilter(filterFieldsOf(param)[i])])
    \o Flatten([i \in 1..Len(propertyValidationsOf(param)) |->
                   registerValidatedProperty(propertyValidationsOf(param)[i])])

\* collectParam, lines 289-348: its assignments to optionMap
collectOptions(param) ==
    Flatten([i \in 1..Len(optionsOf(param)) |-> registerOption(optionsOf(param)[i])])
    \o Flatten([i \in 1..Len(propertyValidationsOf(param)) |->
                   registerChoices(OptSeq(propertyValidationsOf(param)[i].options))])

\* lines 353-355
ruleInputValues(om, rule) ==
    JoinT([i \in 1..Len(OptSeq(rule.input)) |->
              <<GetOr(om, OptSeq(rule.input)[i], OptSeq(rule.input)[i])>>], " / ")

ruleTargets(rule) ==
    IF rule.show = None THEN <<>> ELSE OptSeq(rule.show[1].parameters)

\* lines 351-360, one rule of the parameter labelled triggerLabel: its
\* assignments to visibilityMap
registerRule(om, triggerLabel, rule) ==
    [i \in 1..Len(ruleTargets(rule)) |->
        Entry(ruleTargets(rule)[i],
              <<"Visible when \"", Tpl(triggerLabel), "\" is \"">>
              \o ruleInputValues(om, rule) \o <<"\"">>)]

\* collectParam, lines 350-361: its assignments to visibilityMap, om being
\* optionMap as the parameter's own options have left it
collectRules(om, param) ==
    Flatten([i \in 1..Len(OptSeq(param.rules)) |->
                registerRule(om, param.label, OptSeq(param.rules)[i])])

\* lines 365-366 and 376-377: the properties of the objects, then those of
\* the object requests
propertiesOf(wf) ==
    Flatten([i \in 1..Len(OptSeq(wf.objects)) |-> OptSeq(OptSeq(wf.objects)[i].properties)])
    \o Flatten([i \in 1..Len(OptSeq(wf.objectRequests)) |->
                   OptSeq(OptSeq(wf.objectRequests)[i].propertyRequests)])

\* lines 367 and 378
registerProperty(p) ==
    <<Entry(Tpl(p.id), FirstTruthy(<<p.displayName, p.name, p.label, p.id>>, ""))>>

\* lines 395-403: the assignments to optionMap for the automations of a task
registerAutomationChoices(autos) ==
    Flatten([i \in 1..Len(autos) |->
                IF autos[i].actionDetails = None THEN <<>>
                ELSE registerChoices(OptSeq(autos[i].actionDetails[1].choices))])

\* lines 389-405: what the gathering goes through, in its order: the
\* top-level parameters, then for every task of every stage its parameters
\* and, after them, its automations
Gathered(param) == [param |-> Some(param), autos |-> <<>>]

gatherTask(task) ==
    [i \in 1..Len(OptSeq(task.parameterRequests)) |->
        Gathered(OptSeq(task.parameterRequests)[i])]
    \o << [param |-> None, autos |-> OptSeq(task.automationRequests)] >>

gatherStage(stage) ==
    Flatten([j \in 1..Len(OptSeq(stage.taskRequests)) |->
                gatherTask(OptSeq(stage.taskRequests)[j])])

gathering(wf) ==
    [i \in 1..Len(OptSeq(wf.parameterRequests)) |-> Gathered(OptSeq(wf.parameterRequests)[i])]
    \o Flatten([i \in 1..Len(OptSeq(wf.stageRequests)) |->
                   gatherStage(OptSeq(wf.stageRequests)[i])])

\* the assignments to optionMap of one step of the gathering
gatheredOptions(g) ==
    IF g.param # None THEN collectOptions(g.param[1]) ELSE registerAutomationChoices(g.autos)

\* Tables that a call takes over from the call before it.
newTables_Shared(previous) == previous

\* lines 181-188: the tables a call of processWorkflow starts from
newTables(previous) == EmptyTables

\* optionMap after the object passes and the first n steps of the gathering
optionMapAfter(start, objectOptions, gatheredBy, n) ==
    start.optionMap \o objectOptions \o Flatten(SubSeq(gatheredBy, 1, n))

\* lines 181-405: the tables of a definition
buildTables(wf, previous) ==
    LET start == newTables(previous)
        properties == propertiesOf(wf)
        items == gathering(wf)
        objectOptions ==
            Flatten([i \in 1..Len(properties) |->
                        registerChoices(OptSeq(properties[i].choices))])
        gatheredBy == [i \in 1..Len(items) |-> gatheredOptions(items[i])]
    IN  [ taskMap |-> start.taskMap \o registerStages(wf),
          parameterMap |->
              start.parameterMap
              \o Flatten([i \in 1..Len(items) |->
                             IF items[i].param = None THEN <<>>
                             ELSE collectLabels(items[i].param[1])]),
          propertyNameMap |->
              start.propertyNameMap
              \o Flatten([i \in 1..Len(properties) |-> registerProperty(properties[i])])
              \o Flatten([i \in 1..Len(items) |->
                             IF items[i].param = None THEN <<>>
                             ELSE collectPropertyNames(items[i].param[1])]),
          optionMap |-> optionMapAfter(start, objectOptions, gatheredBy, Len(items)),
          visibilityMap |->
              start.visibilityMap
              \o Flatten([i \in 1..Len(items) |->
                             IF items[i].param = None THEN <<>>
                             ELSE collectRules(
                                      optionMapAfter(start, objectOptions, gatheredBy, i),
                                      items[i].param[1])]) ]

(***************************************************************************)
(* Formatter library, lines 213-286.                                       *)
(***************************************************************************)
constraintMappings ==
    ("EQ" :> "equals") @@ ("NEQ" :> "not equals") @@ ("NE" :> "not equals")
    @@ ("LT" :> "is less than") @@ ("LTE" :> "is less than or equal to")
    @@ ("LE" :> "is less than or equal to") @@ ("GT" :> "is greater than")
    @@ ("GTE" :> "is greater than or equal to")
    @@ ("GE" :> "is greater than or equal to") @@ ("CONTAINS" :> "contains")
    @@ ("NOT_CONTAINS" :> "does not contain") @@ ("STARTS_WITH" :> "starts with")
    @@ ("ENDS_WITH" :> "ends with") @@ ("IN" :> "is in") @@ ("NOT_IN" :> "is not in")
    @@ ("BETWEEN" :> "is between") @@ ("IS_NULL" :> "is empty")
    @@ ("IS_NOT_NULL" :> "is not empty")

exceptionMappings ==
    ("DEFAULT_FLOW" :> "Halt Parameter Exception")
    @@ ("HALT_PARAMETER_EXCEPTION" :> "Halt Parameter Exception")
    @@ ("SKIP_EXCEPTION" :> "Skip Exception") @@ ("WARNING_ONLY" :> "Warning Only")
    @@ ("WARNING" :> "Warning Only") @@ ("APPROVAL_REQUIRED" :> "Approval Required")
    @@ ("SOFT_EXCEPTION" :> "Soft Exception") @@ ("HARD_EXCEPTION" :> "Hard Exception")

selectorMappings ==
    ("CONSTANT" :> "Constant") @@ ("PARAMETER" :> "Parameter")
    @@ ("PROPERTY" :> "Property") @@ ("VARIABLE" :> "Variable")
    @@ ("EXPRESSION" :> "Expression") @@ ("NONE" :> "None")

unitMappings ==
    ("DAYS" :> "Days from today") @@ ("DAY" :> "Days from today")
    @@ ("HOURS" :> "Hours from now") @@ ("HOUR" :> "Hours from now")
    @@ ("MINUTES" :> "Minutes from now") @@ ("MINUTE" :> "Minutes from now")
    @@ ("WEEKS" :> "Weeks from today") @@ ("WEEK" :> "Weeks from today")
    @@ ("MONTHS" :> "Months from today") @@ ("MONTH" :> "Months from today")
    @@ ("YEARS" :> "Years from today") @@ ("YEAR" :> "Years from today")

\* A lookup of the code as it is written.
formatWith_AsWritten(mappings, code) ==
    IF Str(code) \in DOMAIN mappings THEN mappings[Str(code)] ELSE Str(formatKey(code))

\* mappings[code.toUpperCase()] || formatKey(code)
formatWith(mappings, code) ==
    IF Str(toUpperCase(code)) \in DOMAIN mappings
    THEN mappings[Str(toUpperCase(code))]
    ELSE Str(formatKey(code))

formatConstraint(constraint) ==
    IF constraint = <<>> THEN "" ELSE formatWith(constraintMappings, constraint)

formatExceptionType(exceptionType) ==
    IF exceptionType = <<>> THEN "Default" ELSE formatWith(exceptionMappings, exceptionType)

formatSelector(selector) ==
    IF selector = <<>> THEN "" ELSE formatWith(selectorMappings, selector)

formatUnit(unit) ==
    IF unit = <<>> THEN "" ELSE formatWith(unitMappings, unit)

(***************************************************************************)
(* Dependencies (lines 558-572) and executor lock (lines 575-602).         *)
(***************************************************************************)
\* An entry that names the identifier and nothing else.
dependencyLine_Bare(taskMap, taskId) == <<"Task ID: ", String(taskId)>>

dependencyLine(taskMap, taskId) ==
    LET taskInfo == lookupTask(taskMap, taskId)
    IN  IF taskInfo # None
        THEN << "Stage ", ToString(taskInfo[1].stageOrder), ": ",
                Tpl(taskInfo[1].stageName), "\n  " \o Arrow \o " Task ",
                ToString(taskInfo[1].stageOrder), ".", ToString(taskInfo[1].taskOrder),
                ": ", Tpl(taskInfo[1].taskName) >>
        ELSE << "Task ID: ", String(taskId), " (not found in workflow)" >>

getDependenciesText(taskMap, task) ==
    LET prereqs == task.prerequisiteTaskIds
    IN  IF prereqs = None \/ prereqs[1] = <<>> THEN NA
        ELSE <<"Tasks that need to be executed before this task:\n">>
             \o JoinT([i \in 1..Len(prereqs[1]) |-> dependencyLine(taskMap, prereqs[1][i])],
                      "\n")

\* The two parts are put in the other order.
getExecutorLockText_CannotFirst(taskMap, task) ==
    IF task.taskExecutorLock = None THEN NA
    ELSE LET lock == task.taskExecutorLock[1]
             cannot == OptSeq(lock.cannotBeExecutorIds)
             lines ==
                 (IF cannot # <<>>
                  THEN << <<"Cannot be executed by same person as:\n  ">>
                          \o JoinT([i \in 1..Len(cannot) |->
                                       IF lookupTask(taskMap, cannot[i]) # None
                                       THEN << "Task ",
                                               ToString(lookupTask(taskMap, cannot[i])[1].stageOrder),
                                               ".",
                                               ToString(lookupTask(taskMap, cannot[i])[1].taskOrder),
                                               ": ",
                                               Tpl(lookupTask(taskMap, cannot[i])[1].taskName),
                                               " (",
                                               Tpl(lookupTask(taskMap, cannot[i])[1].stageName),
                                               ")" >>
                                       ELSE <<"Task ID: ", String(cannot[i])>>],
                                   "\n  ") >>
                  ELSE <<>>)
                 \o
                 (IF TruthyId(lock.hasToBeExecutorId)
                  THEN << IF lookupTask(taskMap, lock.hasToBeExecutorId) # None
                          THEN <<"Must be executed by same person as:\n  ", "Task ",
                                 ToString(lookupTask(taskMap, lock.hasToBeExecutorId)[1].stageOrder),
                                 ".",
                                 ToString(lookupTask(taskMap, lock.hasToBeExecutorId)[1].taskOrder),
                                 ": ",
                                 Tpl(lookupTask(taskMap, lock.hasToBeExecutorId)[1].taskName),
                                 " (",
                                 Tpl(lookupTask(taskMap, lock.hasToBeExecutorId)[1].stageName),
                                 ")">>
                          ELSE <<"Must be executed by same person as: Task ID ",
                                 String(lock.hasToBeExecutorId)>> >>
                  ELSE <<>>)
         IN  IF lines # <<>> THEN JoinT(lines, "\n\n") ELSE NA

lockedTaskText(taskInfo) ==
    << "Task ", ToString(taskInfo.stageOrder), ".", ToString(taskInfo.taskOrder),
       ": ", Tpl(taskInfo.taskName), " (", Tpl(taskInfo.stageName), ")" >>

hasToBeText(taskMap, id) ==
    LET taskInfo == lookupTask(taskMap, id)
    IN  IF taskInfo # None
        THEN <<"Must be executed by same person as:\n  ">> \o lockedTaskText(taskInfo[1])
        ELSE <<"Must be executed by same person as: Task ID ", String(id)>>

cannotBeLine(taskMap, id) ==
    LET taskInfo == lookupTask(taskMap, id)
    IN  IF taskInfo # None THEN lockedTaskText(taskInfo[1])
        ELSE <<"Task ID: ", String(id)>>

getExecutorLockText(taskMap, task) ==
    IF task.taskExecutorLock = None THEN NA
    ELSE LET lock == task.taskExecutorLock[1]
             cannot == OptSeq(lock.cannotBeExecutorIds)
             lines ==
                 (IF TruthyId(lock.hasToBeExecutorId)
                  THEN <<hasToBeText(taskMap, lock.hasToBeExecutorId)>> ELSE <<>>)
                 \o
                 (IF cannot # <<>>
                  THEN << <<"Cannot be executed by same person as:\n  ">>
                          \o JoinT([i \in 1..Len(cannot) |-> cannotBeLine(taskMap, cannot[i])],
                                   "\n  ") >>
                  ELSE <<>>)
         IN  IF lines # <<>> THEN JoinT(lines, "\n\n") ELSE NA

(***************************************************************************)
(* Filters, lines 408-472.                                                 *)
(***************************************************************************)
HexChars == {"a","b","c","d","e","f","0","1","2","3","4","5","6","7","8","9"}

IdLength == 24

\* s.match(/^[a-f0-9]{24}$/)
IsIdPattern(s) == Len(s) = IdLength /\ \A i \in 1..Len(s) : s[i] \in HexChars

\* s.includes('.')
IncludesDot(s) == \E i \in 1..Len(s) : s[i] = "."

\* A field that the code reads as a string may hold a JSON number: the
\* number n, not zero, is the sequence of NumberMark and the digits of n.
NumberMark == "(number)"

NumberValue(n) == <<NumberMark, ToString(n)>>

\* typeof cs === 'string'
IsString(cs) == cs = <<>> \/ cs[1] # NumberMark

\* a method of strings (toUpperCase, replace, includes) is called on the
\* value of o when o is truthy: a TypeError for a value that is no string
Raises(o) == TruthyChars(o) /\ ~IsString(o[1])

\* what a synthesizer that raised has for a result
TypeError == <<"<TypeError>">>

\* a || b || c || null over optional character sequences
RECURSIVE FirstTruthyChars(_)
FirstTruthyChars(opts) ==
    IF opts = <<>> THEN None
    ELSE IF TruthyChars(Head(opts)) THEN Head(opts) ELSE FirstTruthyChars(Tail(opts))

\* lines 419-434: the readable name of a filter's field, "" when there is none
resolvedFieldName(tb, f) ==
    LET fieldName == FirstTruthyChars(<<f.displayName, f.externalId, f.field>>)
    IN  IF fieldName = None THEN ""
        ELSE IF IsString(fieldName[1]) /\ StartsWith(fieldName[1], SearchablePrefix)
             THEN GetOr(tb.propertyNameMap, Str(SecondSegment(fieldName[1])), "")
        ELSE IF IsString(fieldName[1]) /\ IsIdPattern(fieldName[1])
             THEN GetOr(tb.propertyNameMap, Str(fieldName[1]), "")
        ELSE IF ~IncludesDot(fieldName[1]) THEN Str(fieldName[1])
        ELSE ""

\* lines 448-456: a value, or None for an identifier that does not resolve
resolveListedValue_Raw(tb, val) == Some(Str(val))

resolveListedValue(tb, val) ==
    IF IsIdPattern(val)
    THEN LET resolved == GetOr(tb.optionMap, Str(val),
                               GetOr(tb.propertyNameMap, Str(val), ""))
         IN  IF resolved # "" THEN Some(resolved) ELSE None
    ELSE Some(Str(val))

\* lines 448-456
resolvedValues(tb, f) ==
    Flatten([i \in 1..Len(f.values[1]) |-> resolveListedValue(tb, f.values[1][i])])

PARAMETER == <<"P","A","R","A","M","E","T","E","R">>

CONSTANT_ == <<"C","O","N","S","T","A","N","T">>

\* lines 445-462
valuesPart(tb, f) ==
    IF /\ f.values # None
       /\ Len(f.values[1]) > 0
       /\ TruthyChars(f.selector)
       /\ toUpperCase(f.selector[1]) # PARAMETER
    THEN LET rv == resolvedValues(tb, f)
         IN  IF Len(rv) > 0
             THEN << <<"Values: ">> \o JoinT([i \in 1..Len(rv) |-> <<rv[i]>>], ", ") >>
             ELSE <<>>
    ELSE <<>>

\* lines 416-468: the block of filter f, the idx-th of the parameter
filterBlock(tb, f, idx) ==
    LET name  == resolvedFieldName(tb, f)
        parts ==
            (IF name # "" THEN << <<"Field: ", name>> >> ELSE <<>>)
            \o (IF TruthyChars(f.fieldType)
                THEN << <<"Type: ", Str(formatKey(f.fieldType[1]))>> >> ELSE <<>>)
            \o (IF TruthyChars(f.op)
                THEN << <<"Condition: ", formatConstraint(f.op[1])>> >> ELSE <<>>)
            \o (IF TruthyChars(f.selector)
                THEN << <<"Selector: ", formatSelector(f.selector[1])>> >> ELSE <<>>)
            \o valuesPart(tb, f)
            \o (IF TruthyText(f.referencedParameterId)
                THEN << <<"Referenced Parameter: ",
                          GetOr(tb.parameterMap, f.referencedParameterId[1],
                                f.referencedParameterId[1])>> >>
                ELSE <<>>)
    IN  <<"Filter ", ToString(idx), ":\n  ">> \o JoinT(parts, "\n  ")

\* lines 432 and 441-443: the block of filter f raises
filterRaises(f) ==
    \/ Raises(FirstTruthyChars(<<f.displayName, f.externalId, f.field>>))
    \/ Raises(f.fieldType)
    \/ Raises(f.op)
    \/ Raises(f.selector)

getFiltersText(tb, param) ==
    LET propertyFilters == dataField(param, "propertyFilters")
    IN  IF propertyFilters = None THEN EmptyText
        ELSE LET fields == OptSeq(propertyFilters[1].fields)
             IN  IF Len(fields) = 0 THEN EmptyText
                 ELSE IF \E i \in 1..Len(fields) : filterRaises(fields[i]) THEN TypeError
                 ELSE JoinT([i \in 1..Len(fields) |-> filterBlock(tb, fields[i], i)],
                            "\n\n")

(***************************************************************************)
(* Validations, lines 475-555.                                             *)
(***************************************************************************)
\* `${x}` of a bound: a number, or null
boundText(b) == IF b.t = "null" THEN "null" ELSE ToString(b.n)

\* lines 495-501
validationValue(tb, v) ==
    IF /\ TruthyChars(v.selector)
       /\ toUpperCase(v.selector[1]) = CONSTANT_
       /\ IsIdPattern(v.value[1])
    THEN GetOr(tb.optionMap, Str(v.value[1]),
               GetOr(tb.propertyNameMap, Str(v.value[1]), Str(v.value[1])))
    ELSE Str(v.value[1])

\* lines 511-524: the property line's name, "" when the line is left out
validationPropertyName(tb, v) ==
    LET propName == GetOr(tb.propertyNameMap, Str(v.propertyId[1]), "")
    IN  IF propName = "" /\ IsIdPattern(v.propertyId[1]) THEN ""
        ELSE IF propName = "" THEN Str(v.propertyId[1])
        ELSE propName

\* lines 488-530: the block of item v, the idx-th of its list
validationBlock(tb, exceptionType, typeName, v, idx) ==
    LET parts ==
            << <<typeName, " ", ToString(idx), ":">>,
               <<"  Exception Type: ", exceptionType>> >>
            \o (IF TruthyChars(v.constraint)
                THEN << <<"  Condition: ", formatConstraint(v.constraint[1])>> >> ELSE <<>>)
            \o (IF TruthyChars(v.selector)
                THEN << <<"  Selector: ", formatSelector(v.selector[1])>> >> ELSE <<>>)
            \o (IF v.value # None
                THEN << <<"  Value: ", validationValue(tb, v)>> >> ELSE <<>>)
            \o (IF TruthyChars(v.dateUnit)
                THEN << <<"  Unit: ", formatUnit(v.dateUnit[1])>> >> ELSE <<>>)
            \o (IF TruthyText(v.errorMessage)
                THEN << <<"  Error Message: \"", v.errorMessage[1], "\"">> >> ELSE <<>>)
            \o (IF TruthyText(v.referencedParameterId)
                THEN << <<"  Referenced Parameter: ",
                          GetOr(tb.parameterMap, v.referencedParameterId[1],
                                v.referencedParameterId[1])>> >>
                ELSE <<>>)
            \o (IF TruthyChars(v.propertyId) /\ validationPropertyName(tb, v) # ""
                THEN << <<"  Property: ", validationPropertyName(tb, v)>> >> ELSE <<>>)
            \o (IF TruthyText(v.parameterLabel)
                THEN << <<"  Parameter: ", v.parameterLabel[1]>> >> ELSE <<>>)
            \o (IF v.minValue.t # "undefined"
                THEN << <<"  Min Value: ", boundText(v.minValue)>> >> ELSE <<>>)
            \o (IF v.maxValue.t # "undefined"
                THEN << <<"  Max Value: ", boundText(v.maxValue)>> >> ELSE <<>>)
    IN  JoinT(parts, "\n")

\* lines 484-532
processValidationArray(tb, exceptionType, validationArray, typeName) ==
    LET items == OptSeq(validationArray)
    IN  [i \in 1..Len(items) |-> validationBlock(tb, exceptionType, typeName, items[i], i)]

\* lines 540-551: the custom block of a group, as a list of zero or one block
customValidationBlock(exceptionType, cv) ==
    IF cv.kind = "absent" THEN <<>>
    ELSE LET head == << <<"Custom Validation:">>, <<"  Exception Type: ", exceptionType>> >>
             body ==
                 IF cv.kind = "object"
                 THEN [i \in 1..Len(cv.entries) |->
                          <<"  ", Str(formatKey(cv.entries[i].key)), ": ",
                            "\"" \o cv.entries[i].value \o "\"">>]
                 ELSE << <<"  Details: ", cv.text>> >>
         IN  << JoinT(head \o body, "\n") >>

\* lines 481-552: the blocks of one validation group
validationGroupBlocks(tb, validation) ==
    LET exceptionType ==
            formatExceptionType(IF validation.exceptionApprovalType = None THEN <<>>
                                ELSE validation.exceptionApprovalType[1])
    IN  processValidationArray(tb, exceptionType, validation.dateTimeParameterValidations,
                               "Date/Time Validation")
        \o processValidationArray(tb, exceptionType, validation.criteriaValidations,
                                  "Criteria Validation")
        \o processValidationArray(tb, exceptionType, validation.propertyValidations,
                                  "Property Validation")
        \o processValidationArray(tb, exceptionType, validation.resourceParameterValidations,
                                  "Resource Validation")
        \o processValidationArray(tb, exceptionType, validation.relationPropertyValidations,
                                  "Relation Validation")
        \o customValidationBlock(exceptionType, validation.customValidations)

\* lines 491, 492 and 503: the block of item v raises
itemRaises(v) == Raises(v.constraint) \/ Raises(v.selector) \/ Raises(v.dateUnit)

\* line 482, and the items of the five lists
groupRaises(validation) ==
    \/ Raises(validation.exceptionApprovalType)
    \/ \E v \in Range(OptSeq(validation.dateTimeParameterValidations))
               \cup Range(OptSeq(validation.criteriaValidations))
               \cup Range(OptSeq(validation.propertyValidations))
               \cup Range(OptSeq(validation.resourceParameterValidations))
               \cup Range(OptSeq(validation.relationPropertyValidations)) :
          itemRaises(v)

getValidationsText(tb, param) ==
    LET validations == OptSeq(param.validations)
    IN  IF \E i \in 1..Len(validations) : groupRaises(validations[i]) THEN TypeError
        ELSE
        JoinT(Flatten([i \in 1..Len(validations) |->
                          validationGroupBlocks(tb, validations[i])]),
              "\n\n")

(***************************************************************************)
(* Automations, lines 605-651.                                             *)
(***************************************************************************)
\* (code || "").replace(/_/g, " ").toLowerCase()
humanizeCode(code) ==
    IF code = None THEN "" ELSE Str(toLowerCase(UnderscoreToSpace(code[1])))

\* Array.prototype.find by identifier: the first match, or None
findParam(params, refId) ==
    LET hits == SelectSeq(params, LAMBDA p : p.id = refId)
    IN  IF hits = <<>> THEN None ELSE Some(hits[1])

allTaskParams(wf) ==
    LET stages == OptSeq(wf.stageRequests)
        tasks  == Flatten([i \in 1..Len(stages) |-> OptSeq(stages[i].taskRequests)])
    IN  Flatten([i \in 1..Len(tasks) |-> OptSeq(tasks[i].parameterRequests)])

\* lines 612-625
\* The referenced parameter is looked for among the parameters of the tasks
\* before the top-level ones.
automationObjectType_TasksFirst(wf, auto) ==
    LET details  == auto.actionDetails
        explicit == IF details = None THEN ""
                    ELSE FirstTruthy(<<details[1].objectTypeDisplayName>>, "")
    IN  IF explicit # "" THEN explicit
        ELSE IF details # None /\ TruthyText(details[1].referencedParameterId)
        THEN LET refId == details[1].referencedParameterId[1]
                 nested == findParam(allTaskParams(wf), refId)
                 refParam == IF nested # None THEN nested
                             ELSE findParam(OptSeq(wf.parameterRequests), refId)
             IN  IF refParam # None /\ TruthyText(dataField(refParam[1], "collection"))
                 THEN dataField(refParam[1], "collection")[1]
                 ELSE "Unknown Object Type"
        ELSE "Unknown Object Type"

automationObjectType(wf, auto) ==
    LET details  == auto.actionDetails
        explicit == IF details = None THEN ""
                    ELSE FirstTruthy(<<details[1].objectTypeDisplayName>>, "")
        objectType == IF explicit # "" THEN explicit ELSE "Unknown Object Type"
    IN  IF /\ objectType = "Unknown Object Type"
           /\ details # None
           /\ TruthyText(details[1].referencedParameterId)
        THEN LET refId == details[1].referencedParameterId[1]
                 top   == findParam(OptSeq(wf.parameterRequests), refId)
                 refParam == IF top # None THEN top
                             ELSE findParam(allTaskParams(wf), refId)
             IN  IF refParam # None /\ TruthyText(dataField(refParam[1], "collection"))
                 THEN dataField(refParam[1], "collection")[1]
                 ELSE objectType
        ELSE objectType

\* lines 627-638: the bulleted list of mapped parameters
automationMappings(tb, auto) ==
    LET cfgs == IF auto.actionDetails = None THEN <<>>
                ELSE OptSeq(auto.actionDetails[1].configuration)
        labelOf(cfg) ==
            FirstTruthy(<<cfg.parameterLabel, cfg.parameterDisplayName>>,
                        GetOr(tb.propertyNameMap, Tpl(cfg.parameterId), ""))
        named == SelectSeq([i \in 1..Len(cfgs) |-> labelOf(cfgs[i])], LAMBDA l : l # "")
    IN  JoinT([i \in 1..Len(named) |-> <<Bullet \o " ", named[i]>>], "\n")

\* lines 607-648: the block of one automation rule
automationBlock(wf, tb, auto) ==
    LET mappings == automationMappings(tb, auto)
        parts ==
            << <<"Automation: ", FirstTruthy(<<auto.displayName>>, "Unnamed Automation")>>,
               <<"Trigger: ", humanizeCode(auto.triggerType)>>,
               <<"Action: ", humanizeCode(auto.actionType)>>,
               <<"Object Type: ", automationObjectType(wf, auto)>> >>
            \o (IF ~IsEmptyText(mappings)
                THEN << <<"Parameters to be automated:\n">> \o mappings >> ELSE <<>>)
    IN  JoinT(parts, "\n")

buildAutomationText(wf, tb, task) ==
    LET autos == OptSeq(task.automationRequests)
    IN  JoinT([i \in 1..Len(autos) |-> automationBlock(wf, tb, autos[i])], "\n\n")

(***************************************************************************)
(* Record Builder: makeRow, lines 655-703.                                 *)
(***************************************************************************)
\* The value of a column whose JavaScript value is undefined.
JsUndefined == <<"<undefined>">>

\* a column that copies an optional text
Column(o) == IF o = None THEN JsUndefined ELSE <<o[1]>>

Columns ==
    << "Stage Name", "Activity Name", "Performer", "Activity Description in detail",
       "Instruction Title", "Options / Values", "Field Type",
       "Activity / Parameter Type", "Dependencies", "Executor Lock", "Branching",
       "Filters", "Validations", "Automation Details", "Configuration Feasibility",
       "Configuration Feasibility Notes", "Configuration Status",
       "IS SELF VERIFICATION PRESENT?", "Tester Comments",
       "IS PEER VERIFICATION PRESENT?", "Tester Comments (B)" >>

CreateJobForm == "Create Job Form"

\* d?.name || d?.label || d?.value, joined (lines 667 and 669)
optionList(options) ==
    LET texts == SelectSeq([i \in 1..Len(options) |->
                               FirstTruthy(<<options[i].name, options[i].label,
                                             options[i].value>>, "")],
                           LAMBDA t : t # "")
    IN  JoinT([i \in 1..Len(texts) |-> <<texts[i]>>], " " \o Bullet \o " ")

\* The resource marker is looked for before the nested choices.
optionsText_MarkerFirst(param) ==
    IF param.data.kind = "array" THEN optionList(param.data.items)
    ELSE IF TruthyText(dataField(param, "collection"))
         THEN <<"[Resource: ",
                FirstTruthy(<<dataField(param, "objectTypeDisplayName")>>,
                            dataField(param, "collection")[1]),
                "]">>
    ELSE IF dataField(param, "choices") # None
         THEN optionList(dataField(param, "choices")[1])
    ELSE IF TruthyText(dataField(param, "text")) THEN <<"[Instruction Text]">>
    ELSE NA

\* lines 665-674
optionsText(param) ==
    IF param.data.kind = "array" THEN optionList(param.data.items)
    ELSE IF dataField(param, "choices") # None
         THEN optionList(dataField(param, "choices")[1])
    ELSE IF TruthyText(dataField(param, "collection"))
         THEN <<"[Resource: ",
                FirstTruthy(<<dataField(param, "objectTypeDisplayName")>>,
                            dataField(param, "collection")[1]),
                "]">>
    ELSE IF TruthyText(dataField(param, "text")) THEN <<"[Instruction Text]">>
    ELSE NA

\* A branching text without the placeholder.
branchingOf_Unguarded(tb, param) ==
    IF HasKey(tb.visibilityMap, param.id) THEN Get(tb.visibilityMap, param.id) ELSE EmptyText

\* visibilityMap[param.id] || "N/A"
branchingOf(tb, param) ==
    IF HasKey(tb.visibilityMap, param.id) THEN Get(tb.visibilityMap, param.id) ELSE NA

\* the task-level columns on every parameter of the task
isLastFor_Always(idx, lastIndex) == TRUE

\* the task-level columns on the first parameter of the task
isLastFor_First(idx, lastIndex) == idx = 1

\* idx === lastIndex (lines 713 and 723)
isLastFor(idx, lastIndex) == idx = lastIndex

makeRow(tb, stage, task, param, automationText, taskObj, isLastParam) ==
    [c \in Range(Columns) |->
        CASE c = "Stage Name" -> Column(stage)
          [] c = "Activity Name" -> Column(task)
          [] c = "Performer" -> <<"Performer/Verifier">>
          [] c = "Activity Description in detail" ->
                 <<"Performer provides input for ", Tpl(param.label), ".">>
          [] c = "Instruction Title" -> Column(param.label)
          [] c = "Options / Values" -> OrNA(optionsText(param))
          [] c = "Field Type" ->
                 IF param.mandatory THEN <<"Mandatory">> ELSE <<"Optional">>
          [] c = "Activity / Parameter Type" ->
                 IF TruthyText(param.type) THEN <<param.type[1]>> ELSE NA
          [] c = "Dependencies" ->
                 IF isLastParam /\ taskObj # None
                 THEN getDependenciesText(tb.taskMap, taskObj[1]) ELSE NA
          [] c = "Executor Lock" ->
                 IF isLastParam /\ taskObj # None
                 THEN getExecutorLockText(tb.taskMap, taskObj[1]) ELSE NA
          [] c = "Branching" -> branchingOf(tb, param)
          [] c = "Filters" -> OrNA(getFiltersText(tb, param))
          [] c = "Validations" -> OrNA(getValidationsText(tb, param))
          [] c = "Automation Details" ->
                 IF isLastParam THEN automationText ELSE EmptyText
          [] c = "Configuration Feasibility" -> <<"Configurable">>
          [] c = "Configuration Feasibility Notes" -> NA
          [] c = "Configuration Status" -> <<"Configured">>
          [] c = "IS SELF VERIFICATION PRESENT?" ->
                 IF param.verificationType \in {Some("SELF"), Some("BOTH")}
                 THEN <<"Enabled">> ELSE <<"Disabled">>
          [] c = "Tester Comments" -> NA
          [] c = "IS PEER VERIFICATION PRESENT?" ->
                 IF param.verificationType = Some("BOTH")
                 THEN <<"Enabled">> ELSE <<"Disabled">>
          [] c = "Tester Comments (B)" -> NA]

(***************************************************************************)
(* processWorkflow, lines 180-726.                                         *)
(***************************************************************************)
\* lines 708-715: the records of one task
taskRows(wf, tb, stage, task) ==
    LET automationText == buildAutomationText(wf, tb, task)
        params == OptSeq(task.parameterRequests)
        lastIndex == Len(params)
    IN  [idx \in 1..Len(params) |->
            makeRow(tb, stage.name, task.name, params[idx], automationText, Some(task),
                    isLastFor(idx, lastIndex))]

\* lines 706-717
stageRows(wf, tb) ==
    LET stages == OptSeq(wf.stageRequests)
        rowsOfStage(stage) ==
            LET tasks == OptSeq(stage.taskRequests)
            IN  Flatten([j \in 1..Len(tasks) |-> taskRows(wf, tb, stage, tasks[j])])
    IN  Flatten([i \in 1..Len(stages) |-> rowsOfStage(stages[i])])

\* no record for the top-level parameters
cjfRows_None(tb, wf) == <<>>

\* Top-level records that carry the placeholder in the automation column.
cjfRows_Placeheld(tb, wf) ==
    LET cjfParams == OptSeq(wf.parameterRequests)
    IN  [idx \in 1..Len(cjfParams) |->
            makeRow(tb, Some(CreateJobForm), cjfParams[idx].label, cjfParams[idx],
                    NA, None, isLastFor(idx, Len(cjfParams)))]

\* lines 720-725
cjfRows(tb, wf) ==
    LET cjfParams == OptSeq(wf.parameterRequests)
        cjfLastIndex == Len(cjfParams)
    IN  [idx \in 1..Len(cjfParams) |->
            makeRow(tb, Some(CreateJobForm), cjfParams[idx].label, cjfParams[idx],
                    EmptyText, None, isLastFor(idx, cjfLastIndex))]

\* lines 657-658: makeRow did not return, a synthesizer raised
raised(row) == row["Filters"] = TypeError \/ row["Validations"] = TypeError

\* csvRows.push(makeRow(...)) of lines 714 and 724: the records pushed
\* before the first makeRow that raised
pushed(rs) ==
    IF \A k \in 1..Len(rs) : ~raised(rs[k]) THEN rs
    ELSE SubSeq(rs, 1, (CHOOSE k \in 1..Len(rs) :
                           raised(rs[k]) /\ \A j \in 1..(k - 1) : ~raised(rs[j])) - 1)

\* One call: the record list with the definition's records appended, and
\* the tables the call built.
processWorkflow(wf, rowsSoFar, previousTables) ==
    LET tb == buildTables(wf, previousTables)
    IN  [ csvRows |-> rowsSoFar \o pushed(stageRows(wf, tb) \o cjfRows(tb, wf)),
          tables  |-> tb ]

\* processWorkflow(wf, csvRows) raises: a synthesizer raises for one of the
\* parameters of wf
processWorkflowRaises(wf) ==
    \E param \in Range(allTaskParams(wf)) \cup Range(OptSeq(wf.parameterRequests)) :
        \/ \E f \in Range(filterFieldsOf(param)) : filterRaises(f)
        \/ \E validation \in Range(OptSeq(param.validations)) : groupRaises(validation)

(***************************************************************************)
(* The inputs of the model: workflow definitions as JSON.parse returns     *)
(* them.  Every field the code reads is present in the record; an absent   *)
(* JSON field is None.                                                     *)
(***************************************************************************)
MaxStages == 2

MaxTasks == 2

MaxParams == 2

MaxBatch == 2

SOFT_Exception == <<"S","O","F","T","_","E","x","c","e","p","t","i","o","n">>

RECURSIVE SeqsUpTo(_, _)
SeqsUpTo(S, n) ==
    IF n = 0 THEN {<<>>}
    ELSE LET shorter == SeqsUpTo(S, n - 1)
         IN  shorter \cup {Append(s, c) : s \in shorter, c \in S}

NoData ==
    [ kind |-> "absent", items |-> <<>>, choices |-> None, options |-> None,
      collection |-> None, objectTypeDisplayName |-> None, text |-> None,
      propertyFilters |-> None ]

ArrayData(items) == [NoData EXCEPT !.kind = "array", !.items = items]

ObjectData == [NoData EXCEPT !.kind = "object"]

Param0 ==
    [ id |-> "", label |-> None, type |-> None, mandatory |-> FALSE,
      verificationType |-> None, data |-> NoData, validations |-> None, rules |-> None ]

Option0 ==
    [ id |-> None, name |-> None, label |-> None, displayName |-> None, value |-> None ]

Filter0 ==
    [ field |-> None, displayName |-> None, externalId |-> None, fieldType |-> None,
      op |-> None, selector |-> None, values |-> None, referencedParameterId |-> None ]

NoBound == [t |-> "undefined", n |-> 0]

NullBound == [t |-> "null", n |-> 0]

Bound(n) == [t |-> "number", n |-> n]

Item0 ==
    [ constraint |-> None, selector |-> None, value |-> None, dateUnit |-> None,
      errorMessage |-> None, referencedParameterId |-> None, propertyId |-> None,
      parameterLabel |-> None, minValue |-> NoBound, maxValue |-> NoBound,
      options |-> None, propertyDisplayName |-> None, propertyExternalId |-> None ]

NoCustom == [kind |-> "absent", entries |-> <<>>, text |-> ""]

Group0 ==
    [ exceptionApprovalType |-> None, dateTimeParameterValidations |-> None,
      criteriaValidations |-> None, propertyValidations |-> None,
      resourceParameterValidations |-> None, relationPropertyValidations |-> None,
      customValidations |-> NoCustom ]

Rule0 == [input |-> None, show |-> None]

Lock0 == [hasToBeExecutorId |-> IdUndefined, cannotBeExecutorIds |-> None]

Details0 ==
    [ objectTypeDisplayName |-> None, referencedParameterId |-> None,
      choices |-> None, configuration |-> None ]

Cfg0 == [parameterLabel |-> None, parameterDisplayName |-> None, parameterId |-> None]

Auto0 ==
    [ triggerType |-> None, actionType |-> None, displayName |-> None,
      actionDetails |-> None ]

Task0 ==
    [ id |-> IdUndefined, name |-> None, orderTree |-> None, parameterRequests |-> None,
      prerequisiteTaskIds |-> None, taskExecutorLock |-> None,
      automationRequests |-> None ]

Stage0 == [name |-> None, orderTree |-> None, taskRequests |-> None]

Prop0 ==
    [ id |-> None, displayName |-> None, name |-> None, label |-> None, choices |-> None ]

Obj0 == [properties |-> None, propertyRequests |-> None]

Wf0 ==
    [ stageRequests |-> None, parameterRequests |-> None, objects |-> None,
      objectRequests |-> None ]

\* Identifiers of the 24-character shape, and two near misses.
HexId(c) == [i \in 1..IdLength |-> c]

HexA == HexId("a")

HexB == HexId("b")

HexC == HexId("c")

ShortHex == [i \in 1..(IdLength - 1) |-> "d"]

UpperHex == <<"D">> \o ShortHex

EQ == <<"E","Q">>

(* The parameters the definitions are made of. *)
P_name ==
    [Param0 EXCEPT !.id = "p1", !.label = Some("Name"), !.type = Some("SINGLE_LINE"),
                   !.mandatory = TRUE, !.verificationType = Some("SELF")]

P_choice ==
    [Param0 EXCEPT
        !.id = "p2", !.label = Some("Approved"), !.type = Some("SINGLE_SELECT"),
        !.verificationType = Some("BOTH"),
        !.data = ArrayData(<< [Option0 EXCEPT !.id = Some("o1"), !.name = Some("Yes")],
                              [Option0 EXCEPT !.id = Some("o2"), !.name = Some("No")] >>),
        !.rules = Some(<< [Rule0 EXCEPT
                              !.input = Some(<<"o1">>),
                              !.show = Some([parameters |-> Some(<<"p1">>)])] >>)]

P_resource ==
    [Param0 EXCEPT
        !.id = "p3", !.label = Some("Equipment"), !.type = Some("RESOURCE"),
        !.verificationType = Some("PEER"),
        !.data =
            [ObjectData EXCEPT
                !.collection = Some("equipments"),
                !.objectTypeDisplayName = Some("Equipment"),
                !.propertyFilters = Some([fields |-> Some(<<
                    [Filter0 EXCEPT
                        !.field = Some(SearchablePrefix \o HexA),
                        !.fieldType = Some(<<"s","i","n","g","l","e","S","e","l","e","c","t">>),
                        !.op = Some(EQ),
                        !.selector = Some(CONSTANT_),
                        !.values = Some(<<HexB, HexC, <<"4","2">>, UpperHex>>)],
                    [Filter0 EXCEPT
                        !.field = Some(HexC),
                        !.op = Some(<<"A","N","Y","_","O","F">>),
                        !.selector = Some(CONSTANT_),
                        !.values = Some(<<HexC>>)],
                    [Filter0 EXCEPT
                        !.displayName = Some(<<"O","w","n","e","r">>),
                        !.op = Some(<<"n","e">>),
                        !.selector = Some(<<"P","a","r","a","m","e","t","e","r">>),
                        !.values = Some(<<HexB>>),
                        !.referencedParameterId = Some("p1")],
                    [Filter0 EXCEPT
                        !.field = Some(<<"a",".","b">>),
                        !.selector = Some(<<"c","o","n","s","t","a","n","t">>),
                        !.values = Some(<<ShortHex>>)],
                    [Filter0 EXCEPT
                        !.externalId = Some(<<"s","i","t","e">>),
                        !.values = Some(<<HexB>>)] >>)])]]

P_expiry ==
    [Param0 EXCEPT
        !.id = "p4", !.label = Some("Expiry"), !.type = Some("DATE"),
        !.validations = Some(<<
            [Group0 EXCEPT
                !.exceptionApprovalType = Some(SOFT_Exception),
                !.dateTimeParameterValidations = Some(<<
                    [Item0 EXCEPT
                        !.constraint = Some(<<"G","T">>),
                        !.selector = Some(CONSTANT_),
                        !.value = Some(<<"5">>),
                        !.dateUnit = Some(<<"D","A","Y","S">>),
                        !.errorMessage = Some("Too early"),
                        !.maxValue = NullBound] >>),
                !.propertyValidations = Some(<<
                    [Item0 EXCEPT
                        !.constraint = Some(EQ),
                        !.selector = Some(CONSTANT_),
                        !.value = Some(HexB),
                        !.propertyId = Some(HexA),
                        !.propertyDisplayName = Some("Status"),
                        !.referencedParameterId = Some("p1"),
                        !.minValue = Bound(1),
                        !.options = Some(<< [Option0 EXCEPT
                                                !.id = Some(Str(HexB)),
                                                !.displayName = Some("Active")] >>)],
                    [Item0 EXCEPT
                        !.selector = Some(<<"P","R","O","P","E","R","T","Y">>),
                        !.value = Some(HexC),
                        !.propertyId = Some(HexC)] >>)],
            [Group0 EXCEPT
                !.customValidations =
                    [kind |-> "object",
                     entries |-> << [key |-> <<"m","i","n","L","e","n">>, value |-> "3"] >>,
                     text |-> ""]] >>)]

P_comment ==
    [Param0 EXCEPT !.id = "p5", !.label = Some("Comment"),
                   !.data = [ObjectData EXCEPT !.text = Some("Read the SOP")]]

\* a parameter whose filter refers to identifiers it does not declare
P_lookup ==
    [Param0 EXCEPT
        !.id = "p6", !.label = Some("Lookup"), !.type = Some("RESOURCE"),
        !.data =
            [ObjectData EXCEPT
                !.collection = Some("rooms"),
                !.propertyFilters = Some([fields |-> Some(<<
                    [Filter0 EXCEPT
                        !.field = Some(SearchablePrefix \o HexA),
                        !.selector = Some(CONSTANT_),
                        !.values = Some(<<HexB>>),
                        !.referencedParameterId = Some("p2")] >>)])]]

\* a parameter with a rule on an option that it does not declare itself
P_gate ==
    [Param0 EXCEPT
        !.id = "p9", !.label = Some("Gate"), !.type = Some("SINGLE_SELECT"),
        !.rules = Some(<< [Rule0 EXCEPT
                              !.input = Some(<<"o1">>),
                              !.show = Some([parameters |-> Some(<<"p2">>)])] >>)]

\* a parameter whose property validation lists an option that has a name
\* and a display name
P_graded ==
    [Param0 EXCEPT
        !.id = "p10", !.label = Some("Grade"), !.type = Some("RESOURCE"),
        !.data = ArrayData(<< [Option0 EXCEPT !.id = Some("g0"), !.name = Some("None"),
                                              !.displayName = Some("No grade")] >>),
        !.validations = Some(<<
            [Group0 EXCEPT
                !.propertyValidations = Some(<<
                    [Item0 EXCEPT
                        !.constraint = Some(EQ),
                        !.selector = Some(CONSTANT_),
                        !.value = Some(HexId("d")),
                        !.options = Some(<< [Option0 EXCEPT
                                                !.id = Some(Str(HexId("d"))),
                                                !.name = Some("Pass"),
                                                !.displayName = Some("Passed")] >>)] >>)] >>)]

\* a parameter whose payload has nested choices, a collection and a text
P_nested ==
    [Param0 EXCEPT
        !.id = "p11", !.label = Some("Level"), !.type = Some("SINGLE_SELECT"),
        !.data =
            [ObjectData EXCEPT
                !.choices = Some(<< [Option0 EXCEPT !.id = Some("l1"), !.name = Some("Low")],
                                    [Option0 EXCEPT !.id = Some("l2")],
                                    [Option0 EXCEPT !.id = Some("l3"), !.label = Some("High")],
                                    [Option0 EXCEPT !.value = Some("7")] >>),
                !.collection = Some("levels"),
                !.text = Some("Choose a level")]]

\* a parameter whose payload has a collection and a text
P_marked ==
    [Param0 EXCEPT
        !.id = "p12", !.label = Some("Room"), !.type = Some("RESOURCE"),
        !.data = [ObjectData EXCEPT !.collection = Some("rooms"),
                                    !.text = Some("Pick a room")]]

\* a parameter whose options have neither name nor label nor value
P_silent ==
    [Param0 EXCEPT
        !.id = "p13", !.label = Some("Silent"), !.type = Some("SINGLE_SELECT"),
        !.data = ArrayData(<< [Option0 EXCEPT !.id = Some("s1"),
                                              !.displayName = Some("Quiet")] >>)]

\* a parameter whose filter has a number for its operator
P_coded ==
    [Param0 EXCEPT
        !.id = "p7", !.label = Some("Coded"), !.type = Some("RESOURCE"),
        !.data =
            [ObjectData EXCEPT
                !.collection = Some("rooms"),
                !.propertyFilters = Some([fields |-> Some(<<
                    [Filter0 EXCEPT
                        !.externalId = Some(<<"s","i","t","e">>),
                        !.op = Some(NumberValue(7)),
                        !.selector = Some(CONSTANT_),
                        !.values = Some(<< <<"4","2">> >>)] >>)])]]

\* a parameter whose validation has a number for its unit
P_timed ==
    [Param0 EXCEPT
        !.id = "p8", !.label = Some("Timed"), !.type = Some("DATE"),
        !.validations = Some(<<
            [Group0 EXCEPT
                !.dateTimeParameterValidations = Some(<<
                    [Item0 EXCEPT
                        !.constraint = Some(<<"L","T">>),
                        !.value = Some(<<"3">>),
                        !.dateUnit = Some(NumberValue(1))] >>)] >>)]

\* an object type whose property declares the option HexB
EquipmentObject ==
    [Obj0 EXCEPT
        !.properties = Some(<<
            [Prop0 EXCEPT
                !.id = Some(Str(HexA)), !.displayName = Some("Status"),
                !.choices = Some(<< [Option0 EXCEPT
                                        !.id = Some(Str(HexB)),
                                        !.displayName = Some("Active")] >>)] >>)]

NotifyAutomation ==
    [Auto0 EXCEPT
        !.triggerType = Some(<<"T","A","S","K","_","C","O","M","P","L","E","T","E","D">>),
        !.actionType = Some(<<"C","R","E","A","T","E","_","O","B","J","E","C","T">>),
        !.displayName = Some("Notify"),
        !.actionDetails = Some(
            [Details0 EXCEPT
                !.referencedParameterId = Some("p3"),
                !.configuration = Some(<<
                    [Cfg0 EXCEPT !.parameterLabel = Some("Name")],
                    [Cfg0 EXCEPT !.parameterId = Some("p2")],
                    [Cfg0 EXCEPT !.parameterId = Some("zz")] >>)])]

BareAutomation == Auto0

\* an automation that names its object type and refers to a parameter too
ExplicitAutomation ==
    [Auto0 EXCEPT
        !.triggerType = Some(<<"J","O","B","_","S","T","A","R","T","E","D">>),
        !.actionType = Some(<<"A","R","C","H","I","V","E">>),
        !.displayName = Some("Archive"),
        !.actionDetails = Some(
            [Details0 EXCEPT
                !.objectTypeDisplayName = Some("Batch"),
                !.referencedParameterId = Some("p3")])]

(* The kinds of definition.  A flavour fixes what every task of a          *)
(* definition declares; the shape (how many stages, tasks per stage,       *)
(* parameters per task and top-level parameters) varies within the bounds. *)
Flavours ==
    { [ idForm |-> "number", ordered |-> FALSE, prereq |-> "absent", lock |-> "absent",
        autos |-> None, params |-> <<P_name, P_comment>>, cjf |-> <<P_comment, P_name>>,
        objects |-> None, stageNaming |-> "plain" ],
      [ idForm |-> "number", ordered |-> FALSE, prereq |-> "both", lock |-> "both",
        autos |-> Some(<<NotifyAutomation>>), params |-> <<P_choice, P_name, P_comment>>,
        cjf |-> <<P_name>>, objects |-> None, stageNaming |-> "plain" ],
      [ idForm |-> "string", ordered |-> TRUE, prereq |-> "both", lock |-> "hasToBe",
        autos |-> None, params |-> <<P_name, P_choice>>, cjf |-> <<P_choice, P_comment>>,
        objects |-> None, stageNaming |-> "cjf" ],
      [ idForm |-> "padded", ordered |-> FALSE, prereq |-> "both", lock |-> "cannotBe",
        autos |-> Some(<<BareAutomation, NotifyAutomation>>),
        params |-> <<P_comment, P_resource>>, cjf |-> <<P_resource>>,
        objects |-> Some(<<EquipmentObject>>), stageNaming |-> "plain" ],
      [ idForm |-> "word", ordered |-> FALSE, prereq |-> "missing", lock |-> "empty",
        autos |-> Some(<<>>), params |-> <<P_resource, P_expiry, P_comment>>,
        cjf |-> <<P_expiry, P_lookup>>, objects |-> None, stageNaming |-> "absent" ],
      [ idForm |-> "number", ordered |-> TRUE, prereq |-> "empty", lock |-> "absent",
        autos |-> Some(<<NotifyAutomation>>), params |-> <<P_lookup, P_name, P_expiry>>,
        cjf |-> <<P_lookup, P_name>>, objects |-> None, stageNaming |-> "plain" ] }

Digit(n) == DigitChars[n + 1]

\* the identifier of task j of stage i, in the flavour's form
taskIdOf(form, i, j) ==
    CASE form = "number" -> IdNum(10 * i + j)
      [] form = "string" -> IdStr(<<Digit(i), Digit(j)>>)
      [] form = "padded" -> IdStr(<<"0", Digit(i), Digit(j)>>)
      [] OTHER -> IdStr(<<"t", Digit(i), Digit(j)>>)

\* references to the first task of the first stage, in the numeric and in
\* the text form, and references to no task
FirstTaskByNumber == IdNum(11)

FirstTaskByText == IdStr(<<"1","1">>)

MissingByNumber == IdNum(99)

MissingByText == IdStr(<<"z","z">>)

prereqsOf(kind) ==
    CASE kind = "absent" -> None
      [] kind = "empty" -> Some(<<>>)
      [] kind = "both" -> Some(<<FirstTaskByNumber, FirstTaskByText>>)
      [] OTHER -> Some(<<MissingByNumber, MissingByText>>)

lockOf(kind) ==
    CASE kind = "absent" -> None
      [] kind = "empty" -> Some(Lock0)
      [] kind = "hasToBe" -> Some([Lock0 EXCEPT !.hasToBeExecutorId = FirstTaskByText])
      [] kind = "cannotBe" ->
             Some([Lock0 EXCEPT !.cannotBeExecutorIds =
                                    Some(<<FirstTaskByNumber, MissingByText>>)])
      [] OTHER ->
             Some([Lock0 EXCEPT !.hasToBeExecutorId = FirstTaskByNumber,
                                !.cannotBeExecutorIds = Some(<<FirstTaskByText>>)])

\* n parameters, taken in turn from pool, starting after position offset
paramsFrom(pool, offset, n) ==
    [k \in 1..n |-> pool[((offset + k - 1) % Len(pool)) + 1]]

taskOf(fl, i, j, np) ==
    [Task0 EXCEPT
        !.id = taskIdOf(fl.idForm, i, j),
        !.name = Some("Task " \o ToString(i) \o "." \o ToString(j)),
        !.orderTree = IF fl.ordered THEN Some(10 * j) ELSE None,
        !.parameterRequests = IF np = 0 /\ j = 1 THEN None ELSE Some(paramsFrom(fl.params, i + j, np)),
        !.prerequisiteTaskIds = prereqsOf(fl.prereq),
        !.taskExecutorLock = lockOf(fl.lock),
        !.automationRequests = fl.autos]

stageNameOf(naming, i) ==
    CASE naming = "cjf" /\ i = 2 -> Some(CreateJobForm)
      [] naming = "absent" /\ i = 2 -> None
      [] OTHER -> Some("Stage " \o ToString(i))

stageOf(fl, i, nt, np) ==
    [Stage0 EXCEPT
        !.name = stageNameOf(fl.stageNaming, i),
        !.orderTree = IF fl.ordered THEN Some(i + 2) ELSE None,
        !.taskRequests = IF nt = 0 /\ i = 1 THEN None
                         ELSE Some([j \in 1..nt |-> taskOf(fl, i, j, np)])]

definitionOf(fl, ns, nt, np, ncjf) ==
    [Wf0 EXCEPT
        !.stageRequests = IF ns = 0 THEN None
                          ELSE Some([i \in 1..ns |-> stageOf(fl, i, nt, np)]),
        !.parameterRequests = IF ncjf = 0 THEN None
                              ELSE Some(paramsFrom(fl.cjf, 0, ncjf)),
        !.objects = fl.objects]

Definitions ==
    { definitionOf(fl, ns, nt, np, ncjf) :
        fl \in Flavours, ns \in 0..MaxStages, nt \in 0..MaxTasks,
        np \in 0..MaxParams, ncjf \in 0..MaxParams }

\* the definitions that batches are made of: one of each flavour
BatchDefinitions == { definitionOf(fl, 1, 1, 2, 1) : fl \in Flavours }

Batches == SeqsUpTo(BatchDefinitions, MaxBatch)

Malformed == [ok |-> FALSE, isArray |-> FALSE, value |-> <<>>]

ParsedObject(wf) == [ok |-> TRUE, isArray |-> FALSE, value |-> wf]

ParsedArray(wfs) == [ok |-> TRUE, isArray |-> TRUE, value |-> wfs]

TextFile(name, parsed) ==
    [name |-> name, format |-> "text", parsed |-> parsed, entries |-> <<>>]

ZipFile(name, entries) ==
    [name |-> name, format |-> "zip", parsed |-> Malformed, entries |-> entries]

WfJson == <<"w","f",".","j","s","o","n">>

BatchJson == <<"a","l","l",".","J","S","O","N">>

NotesTxt == <<"n","o","t","e","s",".","t","x","t">>

ExportZip == <<"E","x","p","o","r","t",".","Z","I","P">>

SomeDefinition == definitionOf(CHOOSE fl \in Flavours : fl.idForm = "string", 2, 1, 2, 1)

\* definitions with a field of another JSON type than the code expects:
\* in the last top-level parameter, in the only parameter of the second
\* stage, in the first parameter of the first stage
OddAtTheEnd == [SomeDefinition EXCEPT !.parameterRequests = Some(<<P_name, P_coded>>)]

OddInTheMiddle ==
    [SomeDefinition EXCEPT
        !.stageRequests[1][2].taskRequests[1][1].parameterRequests = Some(<<P_timed>>)]

OddAtTheStart ==
    [SomeDefinition EXCEPT
        !.stageRequests[1][1].taskRequests[1][1].parameterRequests =
            Some(<<P_coded, P_name>>)]

OddDefinitions == {OddAtTheEnd, OddInTheMiddle, OddAtTheStart}

\* a definition whose options have a name and a display name, in the list of
\* a parameter, in that of a property validation, and in the choices of a
\* property
NamedOptions ==
    [SomeDefinition EXCEPT
        !.parameterRequests = Some(<<P_graded>>),
        !.objects = Some(<< [Obj0 EXCEPT
            !.properties = Some(<<
                [Prop0 EXCEPT
                    !.id = Some("grade"), !.displayName = Some("Grade"),
                    !.choices = Some(<< [Option0 EXCEPT
                                            !.id = Some("g1"), !.name = Some("Low"),
                                            !.displayName = Some("Low grade")] >>)] >>)] >>)]

\* definitions whose first task has three automations and the parameter
\* "p3" with the collection "equipments": the top-level parameter "p3" has
\* another collection, or none
Automated(top) ==
    [definitionOf(CHOOSE fl \in Flavours : fl.idForm = "padded", 1, 1, 2, 0) EXCEPT
        !.parameterRequests = Some(<<P_name, top>>),
        !.stageRequests[1][1].taskRequests[1][1].automationRequests =
            Some(<<NotifyAutomation, ExplicitAutomation, BareAutomation>>)]

AutomatedDefinitions ==
    { Automated([P_resource EXCEPT !.data.collection = Some("tools")]),
      Automated([P_comment EXCEPT !.id = "p3"]) }

\* a definition whose top-level parameters have payloads of several shapes
ShapedDefinition ==
    [SomeDefinition EXCEPT !.parameterRequests = Some(<<P_nested, P_marked, P_silent>>)]

\* a definition whose two tasks have locks of both parts, with references
\* to a task of the definition and to tasks that it does not have
LockedDefinition ==
    [SomeDefinition EXCEPT
        !.stageRequests[1][1].taskRequests[1][1].taskExecutorLock =
            Some([Lock0 EXCEPT !.hasToBeExecutorId = MissingByNumber,
                               !.cannotBeExecutorIds =
                                   Some(<<FirstTaskByText, MissingByText>>)]),
        !.stageRequests[1][2].taskRequests[1][1].taskExecutorLock =
            Some([Lock0 EXCEPT !.hasToBeExecutorId = FirstTaskByNumber,
                               !.cannotBeExecutorIds = Some(<<MissingByNumber>>)])]

\* the same parameters in two orders: the rule of P_gate is scanned before
\* the option it names is declared, and after it
RuleBeforeOption == [SomeDefinition EXCEPT !.parameterRequests = Some(<<P_gate, P_choice>>)]

RuleAfterOption == [SomeDefinition EXCEPT !.parameterRequests = Some(<<P_choice, P_gate>>)]

OddBatches ==
    { <<SomeDefinition, wf>> : wf \in OddDefinitions }
    \cup { <<wf, SomeDefinition>> : wf \in OddDefinitions }

Archives ==
    { <<>>,
      << [filename |-> NotesTxt, parsed |-> Malformed] >>,
      << [filename |-> WfJson, parsed |-> ParsedObject(SomeDefinition)] >>,
      << [filename |-> NotesTxt, parsed |-> Malformed],
         [filename |-> WfJson, parsed |-> ParsedObject(SomeDefinition)],
         [filename |-> BatchJson,
          parsed |-> ParsedArray(<<SomeDefinition, SomeDefinition>>)] >>,
      << [filename |-> WfJson, parsed |-> ParsedObject(SomeDefinition)],
         [filename |-> BatchJson, parsed |-> Malformed] >>,
      << [filename |-> WfJson, parsed |-> ParsedObject(SomeDefinition)],
         [filename |-> BatchJson,
          parsed |-> ParsedObject(OddAtTheEnd)] >> }

Files ==
    { TextFile(WfJson, ParsedObject(wf)) : wf \in Definitions }
    \cup { TextFile(BatchJson, ParsedArray(b)) : b \in Batches }
    \cup { TextFile(WfJson, ParsedObject(wf)) : wf \in OddDefinitions }
    \cup { TextFile(WfJson, ParsedObject(wf)) : wf \in {RuleBeforeOption, RuleAfterOption, NamedOptions, ShapedDefinition,
                                                       LockedDefinition} }
    \cup { TextFile(WfJson, ParsedObject(wf)) : wf \in AutomatedDefinitions }
    \cup { TextFile(BatchJson, ParsedArray(b)) : b \in OddBatches }
    \cup { TextFile(WfJson, Malformed), TextFile(ExportZip, ParsedObject(SomeDefinition)),
           ZipFile(WfJson, << >>) }
    \cup { ZipFile(ExportZip, a) : a \in Archives }

(***************************************************************************)
(* The upload handler's state after construction (lines 78-83).            *)
(***************************************************************************)
MaxCalls == 2

Calls == 1..MaxCalls

NoToast == [type |-> "none", message |-> <<>>]

NoFile ==
    [ name |-> <<>>, format |-> "text",
      parsed |-> [ok |-> FALSE, isArray |-> FALSE, value |-> <<>>], entries |-> <<>> ]

UploadInit ==
    /\ rows = <<>>
    /\ loading = FALSE
    /\ toast = NoToast
    /\ pc = [c \in Calls |-> "idle"]
    /\ file = [c \in Calls |-> NoFile]
    /\ jsonObjects = [c \in Calls |-> <<>>]
    /\ zipPos = [c \in Calls |-> 0]
    /\ csvRows = [c \in Calls |-> <<>>]

(***************************************************************************)
(* handleFileUpload, lines 133-177.  A file is its name and its bytes:     *)
(* either a text, given by what JSON.parse makes of it (a failure, one     *)
(* definition, or an array of definitions), or an archive, given by its    *)
(* entries in order.  The handler is cut at its awaits.                    *)
(***************************************************************************)
DotZip == <<".","z","i","p">>

DotJson == <<".","j","s","o","n">>

\* String.prototype.endsWith
EndsWith(s, suffix) ==
    Len(s) >= Len(suffix) /\ SubSeq(s, Len(s) - Len(suffix) + 1, Len(s)) = suffix

\* file.name.toLowerCase().endsWith(".zip"), line 140
isZipName(name) == EndsWith(toLowerCase(name), DotZip)

\* /\.json$/i.test(filename), line 143
isJsonName(filename) == EndsWith(toLowerCase(filename), DotJson)

\* Array.isArray(parsed) ? parsed : [parsed], lines 146 and 151
definitionsOf(parsed) == IF parsed.isArray THEN parsed.value ELSE <<parsed.value>>

\* the index of the first .json entry at or after position from, 0 if none
RECURSIVE nextJsonEntry(_, _)
nextJsonEntry(entries, from) ==
    IF from > Len(entries) THEN 0
    ELSE IF isJsonName(entries[from].filename) THEN from
    ELSE nextJsonEntry(entries, from + 1)

\* line 155: processWorkflow over every definition, into one record list
RECURSIVE processAll(_, _)
processAll(objs, call) ==
    IF objs = <<>> THEN call
    ELSE IF processWorkflowRaises(Head(objs))
         THEN processWorkflow(Head(objs), call.csvRows, call.tables)
    ELSE processAll(Tail(objs), processWorkflow(Head(objs), call.csvRows, call.tables))

\* line 154: no record yet, and no table
NoRecords == [csvRows |-> <<>>, tables |-> EmptyTables]

isCjfRow(r) == Flat(r["Stage Name"]) = CreateJobForm

\* all rows first, whatever their stage
sortRows_Unsorted(rs) == rs

\* lines 158-161
sortRows(rs) ==
    SelectSeq(rs, isCjfRow) \o SelectSeq(rs, LAMBDA r : ~isCjfRow(r))

\* lines 136, 164-167, 170-173
infoToast(name) == [type |-> "info", message |-> <<"Processing ", Str(name), "...">>]

successToast(n, name) ==
    [type |-> "success",
     message |-> <<"Processed ", ToString(n), " rows from ", Str(name)>>]

errorToast ==
    [type |-> "error", message |-> <<"Invalid file. Please upload a valid JSON or ZIP.">>]

\* lines 134-141 and 149: the call up to its first await; the calls are
\* numbered in the order in which they are made
StartUpload(c, f) ==
    /\ pc[c] = "idle"
    /\ \A b \in 1..(c - 1) : pc[b] # "idle"
    /\ loading' = TRUE
    /\ toast' = infoToast(f.name)
    /\ file' = [file EXCEPT ![c] = f]
    /\ jsonObjects' = [jsonObjects EXCEPT ![c] = <<>>]
    /\ pc' = [pc EXCEPT ![c] = IF isZipName(f.name) THEN "loadZip" ELSE "readText"]
    /\ UNCHANGED <<rows, zipPos, csvRows, fmtVars>>

\* lines 168-176: the catch and the finally
Failed(c) ==
    /\ toast' = errorToast
    /\ loading' = FALSE
    /\ pc' = [pc EXCEPT ![c] = "done"]
    /\ UNCHANGED <<rows, csvRows, zipPos>>

\* The records pushed before processWorkflow raised are published as well.
Published_Partial(c, objs) ==
    /\ csvRows' = [csvRows EXCEPT ![c] = processAll(objs, NoRecords).csvRows]
    /\ rows' = sortRows(csvRows'[c])
    /\ toast' = IF \E i \in 1..Len(objs) : processWorkflowRaises(objs[i])
                THEN errorToast ELSE successToast(Len(rows'), file[c].name)
    /\ loading' = FALSE
    /\ pc' = [pc EXCEPT ![c] = "done"]
    /\ UNCHANGED zipPos

\* lines 154-176: the definitions are processed, and published unless
\* processWorkflow raised
Published(c, objs) ==
    /\ csvRows' = [csvRows EXCEPT ![c] = processAll(objs, NoRecords).csvRows]
    /\ IF \E i \in 1..Len(objs) : processWorkflowRaises(objs[i])
       THEN /\ toast' = errorToast
            /\ UNCHANGED rows
       ELSE /\ rows' = sortRows(csvRows'[c])
            /\ toast' = successToast(Len(rows'), file[c].name)
    /\ loading' = FALSE
    /\ pc' = [pc EXCEPT ![c] = "done"]
    /\ UNCHANGED zipPos

\* lines 142-147: the loop goes on from entry `from` to its next await, or
\* ends and the definitions are processed
ZipLoopFrom(c, objs, from) ==
    LET next == nextJsonEntry(file[c].entries, from)
    IN  IF next # 0
        THEN /\ zipPos' = [zipPos EXCEPT ![c] = next]
             /\ pc' = [pc EXCEPT ![c] = "readEntry"]
             /\ UNCHANGED <<rows, loading, toast, csvRows>>
        ELSE Published(c, objs)

\* lines 149-176: file.text() has resolved
TextRead(c) ==
    /\ pc[c] = "readText"
    /\ IF file[c].format = "text" /\ file[c].parsed.ok
       THEN /\ jsonObjects' = [jsonObjects EXCEPT ![c] = definitionsOf(file[c].parsed)]
            /\ Published(c, definitionsOf(file[c].parsed))
       ELSE /\ Failed(c)
            /\ UNCHANGED jsonObjects
    /\ UNCHANGED <<file, fmtVars>>

\* line 141: JSZip.loadAsync has settled
ZipLoaded(c) ==
    /\ pc[c] = "loadZip"
    /\ IF file[c].format = "zip"
       THEN ZipLoopFrom(c, jsonObjects[c], 1)
       ELSE Failed(c)
    /\ UNCHANGED <<file, jsonObjects, fmtVars>>

\* lines 144-146: an entry's text has been read
EntryRead(c) ==
    /\ pc[c] = "readEntry"
    /\ LET parsed == file[c].entries[zipPos[c]].parsed
       IN  IF parsed.ok
           THEN LET objs == jsonObjects[c] \o definitionsOf(parsed)
                IN  /\ jsonObjects' = [jsonObjects EXCEPT ![c] = objs]
                    /\ ZipLoopFrom(c, objs, zipPos[c] + 1)
           ELSE /\ Failed(c)
                /\ UNCHANGED jsonObjects
    /\ UNCHANGED <<file, fmtVars>>

(***************************************************************************)
(* One upload: a file is chosen and handled to the end.                    *)
(***************************************************************************)
Init ==
    /\ UploadInit
    /\ key = <<>>
    /\ passes = <<>>
    /\ displayed = <<>>

Next ==
    \/ \E f \in Files : StartUpload(1, f)
    \/ TextRead(1)
    \/ ZipLoaded(1)
    \/ EntryRead(1)

Spec == Init /\ [][Next]_vars

(***************************************************************************)
(* Several uploads: every call of handleFileUpload is started once, by a   *)
(* drop or by the file dialog (lines 747 and 768), at any moment, also     *)
(* while another call is at an await.                                      *)
(***************************************************************************)
GoodArchive ==
    ZipFile(ExportZip,
            << [filename |-> NotesTxt, parsed |-> Malformed],
               [filename |-> WfJson,
                parsed |-> ParsedObject(definitionOf(CHOOSE fl \in Flavours :
                                                        fl.idForm = "padded", 1, 1, 2, 1))] >>)

BrokenArchive ==
    ZipFile(ExportZip,
            << [filename |-> WfJson, parsed |-> ParsedObject(SomeDefinition)],
               [filename |-> BatchJson, parsed |-> Malformed] >>)

FewFiles ==
    { TextFile(WfJson, ParsedObject(SomeDefinition)),
      TextFile(WfJson, ParsedObject(OddInTheMiddle)),
      TextFile(BatchJson, ParsedArray(<<SomeDefinition, OddAtTheStart>>)),
      TextFile(WfJson, Malformed),
      GoodArchive,
      BrokenArchive }

UploadsNext ==
    \E c \in Calls :
        \/ \E f \in FewFiles : StartUpload(c, f)
        \/ TextRead(c)
        \/ ZipLoaded(c)
        \/ EntryRead(c)

UploadsSpec == Init /\ [][UploadsNext]_vars

(***************************************************************************)
(* What the properties below speak of: the upload that has ended well, its *)
(* definitions, and the parameters of each definition in the order of the  *)
(* traversal (those of every task of every stage, then the top-level       *)
(* ones).                                                                  *)
(***************************************************************************)
Done == pc[1] = "done" /\ toast.type = "success"

taskSlots(d, stage, si, task, ti) ==
    LET params == OptSeq(task.parameterRequests)
    IN  [k \in 1..Len(params) |->
            [ def |-> d, kind |-> "task", si |-> si, ti |-> ti,
              stageName |-> stage.name, taskName |-> task.name, task |-> Some(task),
              param |-> params[k], idx |-> k, count |-> Len(params) ]]

stageSlots(d, stage, si) ==
    LET tasks == OptSeq(stage.taskRequests)
    IN  Flatten([j \in 1..Len(tasks) |-> taskSlots(d, stage, si, tasks[j], j)])

topSlots(d, wf) ==
    LET params == OptSeq(wf.parameterRequests)
    IN  [k \in 1..Len(params) |->
            [ def |-> d, kind |-> "top", si |-> 0, ti |-> 0,
              stageName |-> Some(CreateJobForm), taskName |-> params[k].label,
              task |-> None, param |-> params[k], idx |-> k, count |-> Len(params) ]]

SlotsOf(d, wf) ==
    LET stages == OptSeq(wf.stageRequests)
    IN  Flatten([i \in 1..Len(stages) |-> stageSlots(d, stages[i], i)]) \o topSlots(d, wf)

Slots == Flatten([d \in 1..Len(jsonObjects[1]) |-> SlotsOf(d, jsonObjects[1][d])])

\* the records of the upload before the partition, one per slot
Records == csvRows[1]

SameTask(a, b) == a.def = b.def /\ a.kind = b.kind /\ a.si = b.si /\ a.ti = b.ti

\* C1: the records of an upload are as many as the parameters of its
\* definitions (those of all tasks of all stages, and the top-level ones),
\* in the order of the traversal, and the record of a parameter of a task
\* carries the name of its stage, the name of its task and the label of
\* the parameter; the record of a top-level parameter carries its label.
C1_OneRecordPerParameter ==
    Done =>
        LET slots == Slots
        IN  /\ Len(Records) = Len(slots)
            /\ \A k \in 1..Len(slots) :
                  /\ slots[k].param.label # None =>
                        Records[k]["Instruction Title"] = <<slots[k].param.label[1]>>
                  /\ (slots[k].kind = "task" /\ slots[k].stageName # None) =>
                        Records[k]["Stage Name"] = <<slots[k].stageName[1]>>
                  /\ (slots[k].kind = "task" /\ slots[k].taskName # None) =>
                        Records[k]["Activity Name"] = <<slots[k].taskName[1]>>

C1_Witness ==
    /\ Done
    /\ Len(jsonObjects[1]) = 1
    /\ Len(Records) >= 6
    /\ LET slots == Slots
       IN  /\ \E k \in 1..Len(slots) :
                 /\ slots[k].kind = "task" /\ slots[k].si = 2
                 /\ slots[k].ti = 2 /\ slots[k].idx = 2
                 /\ Records[k]["Stage Name"] = <<"Stage 2">>
                 /\ Records[k]["Activity Name"] = <<"Task 2.2">>
           /\ \E k \in 1..Len(slots) : slots[k].kind = "top" /\ slots[k].idx = 2

\* what a task declares for its last record
Declares(task) ==
    \/ OptSeq(task.prerequisiteTaskIds) # <<>>
    \/ /\ task.taskExecutorLock # None
       /\ \/ TruthyId(task.taskExecutorLock[1].hasToBeExecutorId)
          \/ OptSeq(task.taskExecutorLock[1].cannotBeExecutorIds) # <<>>
    \/ OptSeq(task.automationRequests) # <<>>

Placeholder(r) ==
    /\ r["Dependencies"] = NA
    /\ r["Executor Lock"] = NA
    /\ r["Automation Details"] = EmptyText

\* C2: the record of a parameter that is not the last of its task has
\* Dependencies "N/A", Executor Lock "N/A" and Automation Details "",
\* whatever the task declares.
C2_TaskFieldsOnlyOnLast ==
    Done =>
        LET slots == Slots
        IN  \A k \in 1..Len(slots) :
                (slots[k].kind = "task" /\ slots[k].idx # slots[k].count) =>
                    Placeholder(Records[k])

C2_Witness ==
    /\ Done
    /\ LET slots == Slots
       IN  \E k \in 1..Len(slots) :
               /\ slots[k].kind = "task" /\ slots[k].idx = 1 /\ slots[k].count = 2
               /\ OptSeq(slots[k].task[1].prerequisiteTaskIds) # <<>>
               /\ slots[k].task[1].taskExecutorLock # None
               /\ OptSeq(slots[k].task[1].automationRequests) # <<>>
               /\ Placeholder(Records[k])
               /\ Records[k + 1]["Dependencies"] # NA
               /\ Records[k + 1]["Executor Lock"] # NA
               /\ Records[k + 1]["Automation Details"] # EmptyText

\* among the slots, the records of the task of slot k that carry a
\* task-level field
Carriers(slots, k) ==
    { m \in 1..Len(slots) : SameTask(slots[m], slots[k]) /\ ~Placeholder(Records[m]) }

IsCjf(r) == r["Stage Name"] = <<CreateJobForm>>

PlaceOf(k) ==
    Cardinality({i \in 1..(k - 1) : IsCjf(Records[i]) = IsCjf(Records[k])})
    + 1
    + IF IsCjf(Records[k]) THEN 0
      ELSE Cardinality({i \in 1..Len(Records) : IsCjf(Records[i])})

\* C4: the published list is a stable partition of the records of the
\* upload: as long, every record at the place its rank within its own
\* group gives it, and no "Create Job Form" record after another record.
C4_StablePartition ==
    Done =>
        /\ Len(rows) = Len(Records)
        /\ \A k \in 1..Len(Records) : rows[PlaceOf(k)] = Records[k]
        /\ \A i, j \in 1..Len(rows) : (i < j /\ IsCjf(rows[j])) => IsCjf(rows[i])

C4_Witness ==
    /\ Done
    /\ rows # Records
    /\ \E i, j, k, l \in 1..Len(Records) :
          /\ i < j /\ j < k /\ k < l
          /\ ~IsCjf(Records[i]) /\ IsCjf(Records[j])
          /\ ~IsCjf(Records[k]) /\ IsCjf(Records[l])
          /\ Records[i] # Records[k] /\ Records[j] # Records[l]

\* the tables of definition d of the upload
TablesOf(d) == buildTables(jsonObjects[1][d], EmptyTables)

\* the tasks of a definition, stage after stage
TasksOf(wf) ==
    Flatten([i \in 1..Len(OptSeq(wf.stageRequests)) |->
                OptSeq(OptSeq(wf.stageRequests)[i].taskRequests)])

\* the decimal digits of a natural number
RECURSIVE DigitsOf(_)
DigitsOf(n) ==
    IF n < 10 THEN <<Digit(n)>> ELSE DigitsOf(n \div 10) \o <<Digit(n % 10)>>

\* a reference to a task by the numeric form of its identifier, and one by
\* the text of that number
ByNumber(task) == IdNum(Number(task.id).n)

ByText(task) == IdStr(DigitsOf(Number(task.id).n))

\* C5: for every task whose identifier has a numeric form, whether it was
\* declared as a number or as a text, a reference by the number and a
\* reference by its text both resolve through lookupTask, to the same task
\* info, and give the same line in Dependencies and in Executor Lock.
C5_RepresentationAgnostic ==
    Done =>
        \A d \in 1..Len(jsonObjects[1]) :
            LET taskMap == TablesOf(d).taskMap
            IN  \A task \in Range(TasksOf(jsonObjects[1][d])) :
                    ~Number(task.id).nan =>
                        /\ lookupTask(taskMap, ByNumber(task)) # None
                        /\ lookupTask(taskMap, ByNumber(task))
                             = lookupTask(taskMap, ByText(task))
                        /\ dependencyLine(taskMap, ByNumber(task))
                             = dependencyLine(taskMap, ByText(task))
                        /\ cannotBeLine(taskMap, ByNumber(task))
                             = cannotBeLine(taskMap, ByText(task))
                        /\ hasToBeText(taskMap, ByNumber(task))
                             = hasToBeText(taskMap, ByText(task))

\* a task declared with a text that is not the text of its number, whose
\* last record lists it twice in Dependencies, once for each form of the
\* reference, with the same position and names
C5_Witness ==
    /\ Done
    /\ LET slots == Slots
           taskMap == TablesOf(1).taskMap
       IN  \E k \in 1..Len(slots) :
               LET task == slots[k].task[1]
               IN  /\ slots[k].def = 1
                   /\ slots[k].kind = "task" /\ slots[k].si = 1 /\ slots[k].ti = 1
                   /\ slots[k].idx = slots[k].count
                   /\ task.id.t = "string"
                   /\ task.id # ByText(task)
                   /\ task.prerequisiteTaskIds = Some(<<ByNumber(task), ByText(task)>>)
                   /\ Records[k]["Dependencies"]
                        = <<"Tasks that need to be executed before this task:\n">>
                          \o dependencyLine(taskMap, task.id)
                          \o <<"\n">>
                          \o dependencyLine(taskMap, task.id)
                   /\ lookupTask(taskMap, ByNumber(task))
                        = Some(taskInfoOf(jsonObjects[1][1].stageRequests[1][1], 1, task, 1))

\* the records of every definition of the upload processed on its own
Alone == Flatten([d \in 1..Len(jsonObjects[1]) |->
                     processWorkflow(jsonObjects[1][d], <<>>, EmptyTables).csvRows])

\* C6: the records of a batch are, definition after definition, the
\* records of each definition processed alone.
C6_NoLeakage == Done => Records = Alone

\* the parameters that the rules of a definition show
RulesOf(wf) ==
    Flatten([i \in 1..Len(gathering(wf)) |->
                IF gathering(wf)[i].param = None THEN <<>>
                ELSE OptSeq(gathering(wf)[i].param[1].rules)])

ShownTargets(wf) == UNION { Range(ruleTargets(r)) : r \in Range(RulesOf(wf)) }

\* a batch whose first definition has a rule that shows a parameter, and
\* whose second has a parameter of the same id that no rule of its own
\* shows: its record has no branching
C6_Witness ==
    /\ Done
    /\ Len(jsonObjects[1]) = 2
    /\ LET slots == Slots
       IN  \E k \in 1..Len(slots) :
               /\ slots[k].def = 2
               /\ slots[k].param.id \in ShownTargets(jsonObjects[1][1])
               /\ slots[k].param.id \notin ShownTargets(jsonObjects[1][2])
               /\ Records[k]["Branching"] = NA

\* a parameter that declares no validation, no rule and no filter
Bare(param) ==
    /\ OptSeq(param.validations) = <<>>
    /\ OptSeq(param.rules) = <<>>
    /\ dataField(param, "propertyFilters") = None

Unadorned(r) ==
    /\ r["Filters"] = NA
    /\ r["Validations"] = NA
    /\ r["Branching"] = NA

\* C7 (as stated): the record of a parameter that declares no validation,
\* no visibility rule and no filter has "N/A" in Filters, Validations and
\* Branching, whatever the other parameters of the definition declare.
C7_BareParameterAllPlaceholders ==
    Done =>
        LET slots == Slots
        IN  \A k \in 1..Len(slots) : Bare(slots[k].param) => Unadorned(Records[k])

\* C7 (amended): the record of a parameter that declares no validation, no
\* visibility rule and no filter, and that no rule of a parameter of the
\* definition shows, has "N/A" in Filters, Validations and Branching; one
\* that a rule shows has "N/A" in Filters and Validations and the sentence
\* of that rule in Branching.
C7_BareAndNotShown ==
    Done =>
        LET slots == Slots
        IN  \A d \in 1..Len(jsonObjects[1]) :
                LET shown == ShownTargets(jsonObjects[1][d])
                IN  \A k \in 1..Len(slots) :
                        (slots[k].def = d /\ Bare(slots[k].param)) =>
                            /\ Records[k]["Filters"] = NA
                            /\ Records[k]["Validations"] = NA
                            /\ (Records[k]["Branching"] = NA)
                                 <=> (slots[k].param.id \notin shown)

C7_Witness ==
    /\ Done
    /\ LET slots == Slots
           shown == ShownTargets(jsonObjects[1][1])
       IN  \E k, m \in 1..Len(slots) :
               /\ slots[k].def = 1 /\ slots[m].def = 1
               /\ Bare(slots[k].param) /\ Bare(slots[m].param)
               /\ slots[m].param.id \in shown
               /\ slots[k].param.id \notin shown
               /\ Unadorned(Records[k])
               /\ Records[m]["Branching"] # NA
               /\ Records[m]["Filters"] = NA /\ Records[m]["Validations"] = NA

\* the n-th position of text t that holds the fragment sep
NthCut(t, sep, n) ==
    CHOOSE i \in 1..Len(t) :
        t[i] = sep /\ Cardinality({c \in 1..(i - 1) : t[c] = sep}) = n - 1

\* the j-th of the blocks of text t that the fragment "\n\n" separates
BlockOf(t, j) ==
    SubSeq(t,
           IF j = 1 THEN 1 ELSE NthCut(t, "\n\n", j - 1) + 1,
           IF Cardinality({c \in 1..Len(t) : t[c] = "\n\n"}) < j THEN Len(t)
           ELSE NthCut(t, "\n\n", j) - 1)

\* the fragments of the "Values: " line of a block, none when it has no
\* such line
ValuesLine(block) ==
    IF "Values: " \notin Range(block) THEN <<>>
    ELSE SubSeq(block,
                (CHOOSE i \in 1..Len(block) : block[i] = "Values: ") + 1,
                IF \A q \in ((CHOOSE i \in 1..Len(block) : block[i] = "Values: ") + 1)
                            ..Len(block) : block[q] # "\n  "
                THEN Len(block)
                ELSE (CHOOSE q \in ((CHOOSE i \in 1..Len(block) : block[i] = "Values: ") + 1)
                                   ..Len(block) :
                         /\ block[q] = "\n  "
                         /\ \A p \in ((CHOOSE i \in 1..Len(block) : block[i] = "Values: ") + 1)
                                     ..(q - 1) : block[p] # "\n  ") - 1)

\* a value of the identifier pattern that neither optionMap nor
\* propertyNameMap of the definition holds
Unresolved(tb, val) ==
    /\ IsIdPattern(val)
    /\ ~HasKey(tb.optionMap, Str(val))
    /\ ~HasKey(tb.propertyNameMap, Str(val))

\* a filter with the selector "CONSTANT" and values
ConstantFilter(f) == f.selector = Some(CONSTANT_) /\ OptSeq(f.values) # <<>>

\* C8: in the block of a filter with selector "CONSTANT", the "Values: "
\* line holds no value of the identifier pattern that the option and
\* property-name tables do not resolve, and there is no "Values: " line
\* when every value of the filter is such a value.
C8_UnresolvedValuesDropped ==
    Done =>
        LET slots == Slots
        IN  \A d \in 1..Len(jsonObjects[1]) :
                LET tb == TablesOf(d)
                IN  \A k \in 1..Len(slots) :
                        slots[k].def = d =>
                            LET fields == filterFieldsOf(slots[k].param)
                                text == Records[k]["Filters"]
                            IN  \A j \in 1..Len(fields) :
                                    ConstantFilter(fields[j]) =>
                                        /\ \A v \in Range(fields[j].values[1]) :
                                              Unresolved(tb, v) =>
                                                  Str(v) \notin
                                                      Range(ValuesLine(BlockOf(text, j)))
                                        /\ (\A v \in Range(fields[j].values[1]) :
                                               Unresolved(tb, v))
                                             => "Values: " \notin Range(BlockOf(text, j))

C8_Witness ==
    /\ Done
    /\ LET slots == Slots
           tb == TablesOf(1)
       IN  \E k \in 1..Len(slots) :
               LET fields == filterFieldsOf(slots[k].param)
                   text == Records[k]["Filters"]
               IN  /\ slots[k].def = 1
                   /\ \E j \in 1..Len(fields) :
                         /\ ConstantFilter(fields[j])
                         /\ \E v \in Range(fields[j].values[1]) : Unresolved(tb, v)
                         /\ ValuesLine(BlockOf(text, j)) # <<>>
                   /\ \E j \in 1..Len(fields) :
                         /\ ConstantFilter(fields[j])
                         /\ \A v \in Range(fields[j].values[1]) : Unresolved(tb, v)
                         /\ "Selector: " \in Range(BlockOf(text, j))
                         /\ "Values: " \notin Range(BlockOf(text, j))

\* the two verification columns of a record
SelfColumn(r) == r["IS SELF VERIFICATION PRESENT?"]

PeerColumn(r) == r["IS PEER VERIFICATION PRESENT?"]

\* C11: the self-verification column is "Enabled" exactly when the tag of
\* the parameter is SELF or BOTH, the peer-verification column is
\* "Enabled" exactly when the tag is PEER or BOTH, and each is "Disabled"
\* otherwise.
C11_VerificationColumns ==
    Done =>
        LET slots == Slots
        IN  \A k \in 1..Len(slots) :
                /\ SelfColumn(Records[k])
                     = IF slots[k].param.verificationType \in {Some("SELF"), Some("BOTH")}
                       THEN <<"Enabled">> ELSE <<"Disabled">>
                /\ PeerColumn(Records[k])
                     = IF slots[k].param.verificationType \in {Some("PEER"), Some("BOTH")}
                       THEN <<"Enabled">> ELSE <<"Disabled">>

\* C12: every record has the 21 columns, and every column holds a text,
\* never an absent value, whatever field of the stage, task or parameter
\* is missing.
C12_EveryColumnIsText ==
    Done =>
        \A k \in 1..Len(Records) :
            /\ DOMAIN Records[k] = Range(Columns)
            /\ Len(Columns) = 21
            /\ \A c \in Range(Columns) : Records[k][c] # JsUndefined

\* C15: the record of a top-level parameter, the last one included, has
\* Stage Name "Create Job Form", Dependencies "N/A", Executor Lock "N/A"
\* and Automation Details "".
C15_TopLevelRecords ==
    Done =>
        LET slots == Slots
        IN  \A k \in 1..Len(slots) :
                slots[k].kind = "top" =>
                    /\ Records[k]["Stage Name"] = <<CreateJobForm>>
                    /\ Placeholder(Records[k])

\* a definition whose tasks declare prerequisites, locks and automations,
\* with two top-level parameters
C15_Witness ==
    /\ Done
    /\ LET slots == Slots
       IN  /\ \E k \in 1..Len(slots) :
                 /\ slots[k].kind = "top" /\ slots[k].idx = 2 /\ slots[k].count = 2
                 /\ Records[k]["Stage Name"] = <<CreateJobForm>>
                 /\ Placeholder(Records[k]) /\ Placeholder(Records[k - 1])
           /\ \E k \in 1..Len(slots) :
                 /\ slots[k].kind = "task"
                 /\ Records[k]["Dependencies"] # NA
                 /\ Records[k]["Executor Lock"] # NA
                 /\ Records[k]["Automation Details"] # EmptyText

\* the j-th of the pieces of text t that the fragment sep separates
PieceOf(t, sep, j) ==
    SubSeq(t,
           IF j = 1 THEN 1 ELSE NthCut(t, sep, j - 1) + 1,
           IF Cardinality({c \in 1..Len(t) : t[c] = sep}) < j THEN Len(t)
           ELSE NthCut(t, sep, j) - 1)

\* how many pieces the fragment sep makes of text t
Pieces(t, sep) == Cardinality({c \in 1..Len(t) : t[c] = sep}) + 1

DependenciesHeader == "Tasks that need to be executed before this task:\n"

\* the entry that Dependencies is to hold for a prerequisite
ExpectedEntry(taskMap, id) ==
    IF lookupTask(taskMap, id) = None
    THEN <<"Task ID: ", String(id), " (not found in workflow)">>
    ELSE LET info == lookupTask(taskMap, id)[1]
         IN  << "Stage ", ToString(info.stageOrder), ": ", Tpl(info.stageName),
                "\n  " \o Arrow \o " Task ", ToString(info.stageOrder), ".",
                ToString(info.taskOrder), ": ", Tpl(info.taskName) >>

\* C16: the Dependencies text of a task with prerequisites is the header
\* and one entry per prerequisite, in list order: the block of the stage
\* and the position and name of the task for an identifier that
\* lookupTask resolves, the "not found" line with the raw identifier for
\* one that it does not; a task with no list or an empty one has "N/A".
C16_DependenciesText ==
    Done =>
        LET slots == Slots
        IN  \A d \in 1..Len(jsonObjects[1]) :
                LET taskMap == TablesOf(d).taskMap
                IN  \A k \in 1..Len(slots) :
                        (slots[k].def = d /\ slots[k].kind = "task"
                           /\ slots[k].idx = slots[k].count) =>
                            LET ids == OptSeq(slots[k].task[1].prerequisiteTaskIds)
                                text == Records[k]["Dependencies"]
                            IN  IF ids = <<>> THEN text = NA
                                ELSE /\ Head(text) = DependenciesHeader
                                     /\ Pieces(Tail(text), "\n") = Len(ids)
                                     /\ \A i \in 1..Len(ids) :
                                           PieceOf(Tail(text), "\n", i)
                                             = ExpectedEntry(taskMap, ids[i])

\* a record whose first prerequisite is not found, and one with two
\* prerequisites that resolve
C16_Witness ==
    /\ Done
    /\ LET slots == Slots
           taskMap == TablesOf(1).taskMap
       IN  \E k \in 1..Len(slots) :
               /\ slots[k].def = 1 /\ slots[k].kind = "task"
               /\ slots[k].idx = slots[k].count
               /\ Len(OptSeq(slots[k].task[1].prerequisiteTaskIds)) = 2
               /\ Pieces(Tail(Records[k]["Dependencies"]), "\n") = 2
               /\ \/ /\ lookupTask(taskMap, slots[k].task[1].prerequisiteTaskIds[1][1]) = None
                     /\ " (not found in workflow)" \in Range(Records[k]["Dependencies"])
                  \/ /\ lookupTask(taskMap, slots[k].task[1].prerequisiteTaskIds[1][1]) # None
                     /\ lookupTask(taskMap, slots[k].task[1].prerequisiteTaskIds[1][2]) # None
                     /\ " (not found in workflow)" \notin Range(Records[k]["Dependencies"])
    /\ toast.message[2] = "2"

\* a value that the "Values: " line keeps: one that is not of the
\* identifier pattern, or one that the tables resolve
Survives(tb, val) == ~Unresolved(tb, val)

\* the selector of filter f is "parameter", in whatever letter case
ParameterSelected(f) == f.selector # None /\ toUpperCase(f.selector[1]) = PARAMETER

\* C18: the block of a filter with values of which at least one survives
\* resolution has a "Values: " line exactly when the selector of the
\* filter is not "parameter" in whatever letter case, a filter with no
\* selector counting as one whose selector is not "parameter".
C18_ValuesLineUnlessParameter ==
    Done =>
        LET slots == Slots
        IN  \A d \in 1..Len(jsonObjects[1]) :
                LET tb == TablesOf(d)
                IN  \A k \in 1..Len(slots) :
                        slots[k].def = d =>
                            LET fields == filterFieldsOf(slots[k].param)
                                text == Records[k]["Filters"]
                            IN  \A j \in 1..Len(fields) :
                                    (\E v \in Range(OptSeq(fields[j].values)) :
                                        Survives(tb, v))
                                      => ("Values: " \in Range(BlockOf(text, j))
                                            <=> ~ParameterSelected(fields[j]))

\* the items of every list of every validation group of a parameter
ValidationItems(param) ==
    LET groups == OptSeq(param.validations)
    IN  Flatten([g \in 1..Len(groups) |->
                    OptSeq(groups[g].dateTimeParameterValidations)
                    \o OptSeq(groups[g].criteriaValidations)
                    \o OptSeq(groups[g].propertyValidations)
                    \o OptSeq(groups[g].resourceParameterValidations)
                    \o OptSeq(groups[g].relationPropertyValidations)])

\* the values and property references that the filters and the validation
\* items of a parameter hold
ReferencesOf(param) ==
    LET fields == filterFieldsOf(param)
        items == ValidationItems(param)
    IN  UNION {Range(OptSeq(fields[j].values)) : j \in 1..Len(fields)}
        \cup {items[i].value[1] : i \in {n \in 1..Len(items) : items[n].value # None}}
        \cup {items[i].propertyId[1] :
                 i \in {n \in 1..Len(items) : items[n].propertyId # None}}

\* the task identifiers that the prerequisites and the executor lock of a
\* task hold
TaskReferencesOf(task) ==
    Range(OptSeq(task.prerequisiteTaskIds))
    \cup (IF task.taskExecutorLock = None THEN {}
          ELSE Range(OptSeq(task.taskExecutorLock[1].cannotBeExecutorIds))
               \cup (IF TruthyId(task.taskExecutorLock[1].hasToBeExecutorId)
                     THEN {task.taskExecutorLock[1].hasToBeExecutorId} ELSE {}))

\* C19: the Filters and Validations text of a record holds no value or
\* property reference of the identifier pattern that the tables do not
\* resolve, while the Dependencies or Executor Lock text of the last
\* record of a task holds, raw, every task identifier of the task that
\* lookupTask does not resolve.
C19_UnresolvedReferences ==
    Done =>
        LET slots == Slots
        IN  \A d \in 1..Len(jsonObjects[1]) :
                LET tb == TablesOf(d)
                IN  \A k \in 1..Len(slots) :
                        slots[k].def = d =>
                            /\ \A h \in ReferencesOf(slots[k].param) :
                                  Unresolved(tb, h) =>
                                      Str(h) \notin Range(Records[k]["Filters"])
                                                    \cup Range(Records[k]["Validations"])
                            /\ (slots[k].kind = "task" /\ slots[k].idx = slots[k].count) =>
                                  \A id \in TaskReferencesOf(slots[k].task[1]) :
                                      lookupTask(tb.taskMap, id) = None =>
                                          String(id) \in
                                              Range(Records[k]["Dependencies"])
                                              \cup Range(Records[k]["Executor Lock"])

\* what the blocks of the Validations text of a parameter are made from,
\* in the order of the blocks: the items of the five lists of each group
\* with the tag of the group, then the custom validation of the group
BlockSources(param) ==
    LET groups == OptSeq(param.validations)
        itemsOf(g) ==
            OptSeq(g.dateTimeParameterValidations)
            \o OptSeq(g.criteriaValidations)
            \o OptSeq(g.propertyValidations)
            \o OptSeq(g.resourceParameterValidations)
            \o OptSeq(g.relationPropertyValidations)
    IN  Flatten([g \in 1..Len(groups) |->
                    [i \in 1..Len(itemsOf(groups[g])) |->
                        [item |-> Some(itemsOf(groups[g])[i]),
                         tag |-> groups[g].exceptionApprovalType]]
                    \o (IF groups[g].customValidations.kind = "absent" THEN <<>>
                        ELSE << [item |-> None,
                                 tag |-> groups[g].exceptionApprovalType] >>)])

\* C20: in the block of a validation item a sub-line is there only if the
\* field it is made from is: the exception type only for a group that
\* has a tag, the condition, selector, value, unit, error message,
\* referenced parameter, property and parameter label only for an item
\* that has the field, and the minimum and maximum only for an item whose
\* bound is a number, a null bound giving no line.
C20_SubLinesOnlyIfPresent ==
    Done =>
        LET slots == Slots
        IN  \A k \in 1..Len(slots) :
                LET sources == BlockSources(slots[k].param)
                    text == Records[k]["Validations"]
                IN  \A j \in 1..Len(sources) :
                        sources[j].item # None =>
                            LET block == Range(BlockOf(text, j))
                                v == sources[j].item[1]
                            IN  /\ "  Exception Type: " \in block => sources[j].tag # None
                                /\ "  Condition: " \in block => v.constraint # None
                                /\ "  Selector: " \in block => v.selector # None
                                /\ "  Value: " \in block => v.value # None
                                /\ "  Unit: " \in block => v.dateUnit # None
                                /\ "  Error Message: \"" \in block => v.errorMessage # None
                                /\ "  Referenced Parameter: " \in block
                                      => v.referencedParameterId # None
                                /\ "  Property: " \in block => v.propertyId # None
                                /\ "  Parameter: " \in block => v.parameterLabel # None
                                /\ "  Min Value: " \in block => v.minValue.t = "number"
                                /\ "  Max Value: " \in block => v.maxValue.t = "number"

\* C13: for every parameter and every task of the definitions that an
\* upload has read, whatever the JSON type of their fields, each of
\* getFiltersText, getValidationsText, getDependenciesText and
\* getExecutorLockText returns a text: none of them raises.
C13_SynthesizersTotal ==
    pc[1] = "done" =>
        LET slots == Slots
        IN  \A d \in 1..Len(jsonObjects[1]) :
                LET tb == TablesOf(d)
                IN  \A k \in 1..Len(slots) :
                        slots[k].def = d =>
                            /\ getFiltersText(tb, slots[k].param) # TypeError
                            /\ getValidationsText(tb, slots[k].param) # TypeError
                            /\ slots[k].task # None =>
                                  /\ getDependenciesText(tb.taskMap, slots[k].task[1])
                                        # TypeError
                                  /\ getExecutorLockText(tb.taskMap, slots[k].task[1])
                                        # TypeError

\* the call c of handleFileUpload ends in this step
Finishes(c) == pc[c] # "done" /\ pc'[c] = "done"

\* the definitions that the handler reads from file f, as far as it reads
DefinitionsIn(f) ==
    IF isZipName(f.name)
    THEN Flatten([e \in 1..Len(f.entries) |->
                     IF isJsonName(f.entries[e].filename) /\ f.entries[e].parsed.ok
                     THEN definitionsOf(f.entries[e].parsed) ELSE <<>>])
    ELSE IF f.parsed.ok THEN definitionsOf(f.parsed) ELSE <<>>

\* handling file f fails: it is no archive though its name says so, a text
\* of it is no JSON, or processing one of its definitions raises
Unprocessable(f) ==
    \/ isZipName(f.name) /\ f.format # "zip"
    \/ isZipName(f.name) /\ \E e \in 1..Len(f.entries) :
          isJsonName(f.entries[e].filename) /\ ~f.entries[e].parsed.ok
    \/ ~isZipName(f.name) /\ ~(f.format = "text" /\ f.parsed.ok)
    \/ \E wf \in Range(DefinitionsIn(f)) : processWorkflowRaises(wf)

\* C14: the step that ends an upload whose file cannot be parsed or whose
\* processing raises leaves the displayed records as they are and sets
\* the one error notification, and the displayed records change only in a
\* step that ends an upload that does not fail: the records pushed before
\* the failure are never displayed.
C14_FailedUploadPublishesNothing ==
    [][ /\ \A c \in Calls :
              (Finishes(c) /\ Unprocessable(file[c])) =>
                  /\ rows' = rows
                  /\ toast' = errorToast
        /\ rows' # rows =>
              \E c \in Calls :
                  /\ Finishes(c) /\ ~Unprocessable(file[c])
                  /\ rows' = sortRows(csvRows'[c]) ]_vars

\* C14 witness: the first upload has published its records, then the
\* second has failed after it had pushed records of its own: the
\* displayed records are those of the first
C14_Witness ==
    /\ pc = [c \in Calls |-> "done"]
    /\ ~Unprocessable(file[1]) /\ Unprocessable(file[2])
    /\ csvRows[2] # <<>> /\ csvRows[2] # csvRows[1]
    /\ rows # <<>> /\ rows = sortRows(csvRows[1])
    /\ toast = errorToast

\* the Branching sentence of a rule of the parameter labelled triggerLabel,
\* its input tokens read through the option mapping om
SentenceOf(om, triggerLabel, rule) ==
    <<"Visible when \"", Tpl(triggerLabel), "\" is \"">>
    \o JoinT([i \in 1..Len(OptSeq(rule.input)) |->
                 <<GetOr(om, OptSeq(rule.input)[i], OptSeq(rule.input)[i])>>], " / ")
    \o <<"\"">>

\* C21: the Branching text of a record is the sentence of a rule that
\* shows the parameter of the record, with every input token of the rule
\* that is a key of the option mapping of the whole definition shown as
\* the display name of that option, wherever in the definition the
\* option is declared.
C21_BranchingUsesFinalOptions ==
    Done =>
        LET slots == Slots
        IN  \A d \in 1..Len(jsonObjects[1]) :
                LET optionMap == TablesOf(d).optionMap
                    scanned == gathering(jsonObjects[1][d])
                IN  \A k \in 1..Len(slots) :
                        (slots[k].def = d /\ Records[k]["Branching"] # NA) =>
                            \E i \in 1..Len(scanned) :
                                /\ scanned[i].param # None
                                /\ \E rule \in Range(OptSeq(scanned[i].param[1].rules)) :
                                      /\ slots[k].param.id \in Range(ruleTargets(rule))
                                      /\ Records[k]["Branching"]
                                           = SentenceOf(optionMap,
                                                        scanned[i].param[1].label, rule)

\* the options that a definition declares: in the option lists of its
\* parameters, in the option lists of their property validations, in the
\* choice lists of the properties of its objects, and in the choice lists
\* of its automations
DeclaredOptions(wf) ==
    LET scanned == gathering(wf)
        params == {scanned[i].param[1] : i \in {n \in 1..Len(scanned) : scanned[n].param # None}}
        autos == UNION {Range(scanned[i].autos) : i \in 1..Len(scanned)}
    IN  UNION {Range(optionsOf(param)) : param \in params}
        \cup UNION {Range(OptSeq(pv.options)) :
                       pv \in UNION {Range(propertyValidationsOf(param)) : param \in params}}
        \cup UNION {Range(OptSeq(prop.choices)) : prop \in Range(propertiesOf(wf))}
        \cup UNION {Range(OptSeq(auto.actionDetails[1].choices)) :
                       auto \in {x \in autos : x.actionDetails # None}}

\* the display text of an option: its name, else its label, else its
\* display name, else its identifier
DisplayOf(opt) ==
    IF opt.name # None THEN opt.name[1]
    ELSE IF opt.label # None THEN opt.label[1]
    ELSE IF opt.displayName # None THEN opt.displayName[1]
    ELSE opt.id[1]

\* C22: the option mapping of a definition holds, for the identifier of
\* every option that the definition declares in whichever of the four
\* places, the display text of an option declared with that identifier:
\* its name, else its label, else its display name, else the identifier.
C22_OnePrecedenceForOptions ==
    Done =>
        \A d \in 1..Len(jsonObjects[1]) :
            LET optionMap == TablesOf(d).optionMap
                declared == DeclaredOptions(jsonObjects[1][d])
            IN  \A opt \in declared :
                    TruthyText(opt.id) =>
                        /\ HasKey(optionMap, opt.id[1])
                        /\ Get(optionMap, opt.id[1])
                             \in {DisplayOf(other) : other \in {q \in declared : q.id = opt.id}}

\* the parameters of a sequence that have the identifier refId
WithId(params, refId) == SelectSeq(params, LAMBDA p : p.id = refId)

\* the object type that the block of an automation is to show
ExpectedObjectType(wf, auto) ==
    LET details == auto.actionDetails
    IN  IF details # None /\ details[1].objectTypeDisplayName # None
        THEN details[1].objectTypeDisplayName[1]
        ELSE IF details = None \/ details[1].referencedParameterId = None
        THEN "Unknown Object Type"
        ELSE LET top == WithId(OptSeq(wf.parameterRequests),
                               details[1].referencedParameterId[1])
                 nested == WithId(allTaskParams(wf), details[1].referencedParameterId[1])
                 found == IF top # <<>> THEN top ELSE nested
             IN  IF found # <<>> /\ found[1].data.kind = "object"
                    /\ found[1].data.collection # None
                 THEN found[1].data.collection[1]
                 ELSE "Unknown Object Type"

\* the fragment of a block that follows the fragment "Object Type: "
ObjectTypeShown(block) ==
    block[(CHOOSE i \in 1..Len(block) : block[i] = "Object Type: ") + 1]

\* C23: the Automation Details of the last record of a task is the empty
\* text when the task has no automation, and otherwise has one block per
\* automation, whose "Object Type: " line shows the object type that the
\* action details name, else the collection of the parameter that the
\* action details refer to (the first top-level parameter of that
\* identifier, else the first parameter of a task with it), else
\* "Unknown Object Type".
C23_AutomationObjectType ==
    Done =>
        LET slots == Slots
        IN  \A k \in 1..Len(slots) :
                (slots[k].kind = "task" /\ slots[k].idx = slots[k].count) =>
                    LET autos == OptSeq(slots[k].task[1].automationRequests)
                        text == Records[k]["Automation Details"]
                        wf == jsonObjects[1][slots[k].def]
                    IN  IF autos = <<>> THEN text = EmptyText
                        ELSE /\ Pieces(text, "\n\n") = Len(autos)
                             /\ \A j \in 1..Len(autos) :
                                   /\ "Object Type: " \in Range(BlockOf(text, j))
                                   /\ ObjectTypeShown(BlockOf(text, j))
                                        = ExpectedObjectType(wf, autos[j])

\* C23 witness: a task with three automations, whose blocks show the
\* collection of the top-level parameter (the parameter of the task with
\* the same identifier has another), the object type that the action
\* details name, and "Unknown Object Type"
C23_Witness ==
    /\ Done
    /\ LET slots == Slots
       IN  \E k \in 1..Len(slots) :
               LET text == Records[k]["Automation Details"]
               IN  /\ slots[k].kind = "task" /\ slots[k].idx = slots[k].count
                   /\ Len(OptSeq(slots[k].task[1].automationRequests)) = 3
                   /\ \E p \in Range(OptSeq(slots[k].task[1].parameterRequests)) :
                         p.id = "p3" /\ dataField(p, "collection") = Some("equipments")
                   /\ Pieces(text, "\n\n") = 3
                   /\ ObjectTypeShown(BlockOf(text, 1)) = "tools"
                   /\ ObjectTypeShown(BlockOf(text, 2)) = "Batch"
                   /\ ObjectTypeShown(BlockOf(text, 3)) = "Unknown Object Type"

\* the texts that the options of a list give to the Options / Values
\* column: of each option its name, else its label, else its value, an
\* option with none of them giving no text
ShownTexts(options) ==
    LET textOf(opt) ==
            IF opt.name # None THEN opt.name
            ELSE IF opt.label # None THEN opt.label
            ELSE opt.value
    IN  SelectSeq([i \in 1..Len(options) |-> textOf(options[i])], LAMBDA t : t # None)

\* column is the list of the texts of options, " * " between them, or the
\* placeholder when there is no text
ShowsList(column, options) ==
    LET texts == ShownTexts(options)
    IN  IF texts = <<>> THEN column = NA
        ELSE /\ Len(column) = 2 * Len(texts) - 1
             /\ \A i \in 1..Len(texts) : column[2 * i - 1] = texts[i][1]
             /\ \A i \in 1..(Len(texts) - 1) : column[2 * i] = " " \o Bullet \o " "

\* C24: the Options / Values column of a record is given by the first
\* shape that the payload of the parameter has: the list of the texts of
\* its options when the payload is a list, that of its choices when the
\* payload has a choices list, "[Resource: ...]" when it has a collection,
\* "[Instruction Text]" when it has a text, and "N/A" otherwise; a list is
\* shown as the texts of its options with the bullet between them, and as
\* "N/A" when no option has a text.
C24_OptionsColumn ==
    Done =>
        LET slots == Slots
        IN  \A k \in 1..Len(slots) :
                LET data == slots[k].param.data
                    column == Records[k]["Options / Values"]
                    nested == data.kind = "object" /\ data.choices # None
                    resource == data.kind = "object" /\ data.collection # None
                    instruction == data.kind = "object" /\ data.text # None
                IN  /\ data.kind = "array" => ShowsList(column, data.items)
                    /\ nested => ShowsList(column, data.choices[1])
                    /\ (resource /\ ~nested) =>
                          /\ Len(column) = 3
                          /\ column[1] = "[Resource: " /\ column[3] = "]"
                          /\ column[2] = IF data.objectTypeDisplayName # None
                                         THEN data.objectTypeDisplayName[1]
                                         ELSE data.collection[1]
                    /\ (instruction /\ ~resource /\ ~nested) =>
                          column = <<"[Instruction Text]">>
                    /\ (data.kind # "array" /\ ~nested /\ ~resource /\ ~instruction) =>
                          column = NA

\* C24 witness: the records of a definition show "Yes * No" for a list of
\* two named options, the texts of the choices of a payload that has a
\* collection too, the resource marker of a payload that has a text too,
\* the instruction marker, and "N/A" for a list whose option has no text
C24_Witness ==
    /\ Done
    /\ LET slots == Slots
           shown(k) == Records[k]["Options / Values"]
       IN  /\ \E k \in 1..Len(slots) :
                 /\ slots[k].param.data.kind = "array"
                 /\ shown(k) = <<"Yes", " " \o Bullet \o " ", "No">>
           /\ \E k \in 1..Len(slots) :
                 /\ slots[k].param.data.kind = "object"
                 /\ slots[k].param.data.choices # None
                 /\ slots[k].param.data.collection # None
                 /\ Len(slots[k].param.data.choices[1]) = 4
                 /\ shown(k) = <<"Low", " " \o Bullet \o " ", "High",
                                 " " \o Bullet \o " ", "7">>
           /\ \E k \in 1..Len(slots) :
                 /\ slots[k].param.data.collection # None
                 /\ slots[k].param.data.text # None
                 /\ shown(k) = <<"[Resource: ", "rooms", "]">>
           /\ \E k \in 1..Len(slots) :
                 /\ slots[k].param.data.kind = "array"
                 /\ slots[k].param.data.items # <<>>
                 /\ shown(k) = NA

MustBeSame == "Must be executed by same person as:\n  "

MustBeSameRaw == "Must be executed by same person as: Task ID "

CannotBeSame == "Cannot be executed by same person as:\n  "

\* the position, name and stage of a task that a lock refers to
ResolvedTask(info) ==
    << "Task ", ToString(info.stageOrder), ".", ToString(info.taskOrder),
       ": ", Tpl(info.taskName), " (", Tpl(info.stageName), ")" >>

\* the "must be same executor" part for the reference id
MustPart(taskMap, id) ==
    IF lookupTask(taskMap, id) = None THEN <<MustBeSameRaw, String(id)>>
    ELSE <<MustBeSame>> \o ResolvedTask(lookupTask(taskMap, id)[1])

\* the entry of the "cannot be same executor" part for the reference id
CannotEntry(taskMap, id) ==
    IF lookupTask(taskMap, id) = None THEN <<"Task ID: ", String(id)>>
    ELSE ResolvedTask(lookupTask(taskMap, id)[1])

\* part is the "cannot be same executor" part for the references ids
IsCannotPart(part, taskMap, ids) ==
    /\ part # <<>>
    /\ Head(part) = CannotBeSame
    /\ Pieces(Tail(part), "\n  ") = Len(ids)
    /\ \A i \in 1..Len(ids) : PieceOf(Tail(part), "\n  ", i) = CannotEntry(taskMap, ids[i])

\* C25: the Executor Lock text of a task has the "must be executed by same
\* person" part exactly when its lock has a has-to-be reference, and the
\* "cannot be executed by same person" part exactly when the cannot-be
\* list of its lock is not empty; with both, the first part comes first
\* and a blank line separates them; a task with no lock, or with a lock
\* that has neither, has "N/A"; a reference that lookupTask resolves is
\* shown with the position, name and stage of its task, another one with
\* its raw identifier.
C25_ExecutorLockText ==
    Done =>
        LET slots == Slots
        IN  \A d \in 1..Len(jsonObjects[1]) :
                LET taskMap == TablesOf(d).taskMap
                IN  \A k \in 1..Len(slots) :
                        (slots[k].def = d /\ slots[k].kind = "task"
                           /\ slots[k].idx = slots[k].count) =>
                            LET lock == slots[k].task[1].taskExecutorLock
                                must == lock # None /\ lock[1].hasToBeExecutorId.t # "undefined"
                                ids == IF lock = None THEN <<>>
                                       ELSE OptSeq(lock[1].cannotBeExecutorIds)
                                text == Records[k]["Executor Lock"]
                            IN  /\ must <=> (MustBeSame \in Range(text)
                                               \/ MustBeSameRaw \in Range(text))
                                /\ (ids # <<>>) <=> (CannotBeSame \in Range(text))
                                /\ (~must /\ ids = <<>>) => text = NA
                                /\ (must /\ ids = <<>>) =>
                                       text = MustPart(taskMap, lock[1].hasToBeExecutorId)
                                /\ (~must /\ ids # <<>>) => IsCannotPart(text, taskMap, ids)
                                /\ (must /\ ids # <<>>) =>
                                       /\ Pieces(text, "\n\n") = 2
                                       /\ PieceOf(text, "\n\n", 1)
                                            = MustPart(taskMap, lock[1].hasToBeExecutorId)
                                       /\ IsCannotPart(PieceOf(text, "\n\n", 2), taskMap, ids)

\* C25 witness: a definition of two tasks whose locks have both parts: one
\* with a has-to-be reference that is not resolved and a cannot-be list of
\* a resolved and an unresolved reference, the other with a has-to-be
\* reference that is resolved
C25_Witness ==
    /\ Done
    /\ LET slots == Slots
           taskMap == TablesOf(1).taskMap
           locks(k) == slots[k].task[1].taskExecutorLock[1]
           text(k) == Records[k]["Executor Lock"]
       IN  /\ \E k \in 1..Len(slots) :
                 /\ slots[k].kind = "task" /\ slots[k].idx = slots[k].count
                 /\ slots[k].task[1].taskExecutorLock # None
                 /\ lookupTask(taskMap, locks(k).hasToBeExecutorId) = None
                 /\ Len(OptSeq(locks(k).cannotBeExecutorIds)) = 2
                 /\ lookupTask(taskMap, locks(k).cannotBeExecutorIds[1][1]) # None
                 /\ lookupTask(taskMap, locks(k).cannotBeExecutorIds[1][2]) = None
                 /\ Head(text(k)) = MustBeSameRaw
                 /\ text(k)[3] = "\n\n"
                 /\ text(k)[4] = CannotBeSame
           /\ \E k \in 1..Len(slots) :
                 /\ slots[k].kind = "task" /\ slots[k].idx = slots[k].count
                 /\ slots[k].task[1].taskExecutorLock # None
                 /\ locks(k).hasToBeExecutorId.t # "undefined"
                 /\ lookupTask(taskMap, locks(k).hasToBeExecutorId) # None
                 /\ Head(text(k)) = MustBeSame
                 /\ "\n\n" \in Range(text(k))

\* call c of handleFileUpload has started and has not finished
Running(c) == pc[c] \notin {"idle", "done"}

\* C26: the loading flag is true exactly while a call of handleFileUpload
\* has started and not finished: true as long as one call is at an await,
\* also when another call has finished meanwhile, and false when none is.
C26_LoadingWhileRunning == loading <=> (\E c \in Calls : Running(c))

\* C27: when the two uploads have finished and neither has failed, the
\* displayed records and the success notification are those of the upload
\* that was started last, whichever of the two finished last.
C27_LastStartedWins ==
    ( /\ \A c \in Calls : pc[c] = "done"
      /\ \A c \in Calls : ~Unprocessable(file[c]) ) =>
        /\ rows = sortRows(csvRows[MaxCalls])
        /\ toast = successToast(Len(sortRows(csvRows[MaxCalls])), file[MaxCalls].name)

(***************************************************************************)
(* The formatter library on its own: a code is drawn, formatKey is applied *)
(* to it and then to its own result, and the four formatters are applied   *)
(* to it.                                                                  *)
(***************************************************************************)
KeyAlphabet == {"A", "B", "a", "b", "_", " ", "-", "1"}

Soft_exception == <<"S","o","f","t"," ","e","x","c","e","p","t","i","o","n">>

KeySamples ==
    { SOFT_Exception,
      Soft_exception,
      <<"f","i","e","l","d","T","y","p","e">>,
      <<"N","O","T","_","E","Q">>,
      <<" ","_","x","\t","Y","_","_","z"," ">>,
      <<"e","q">>, <<"E","q">>, <<"I","N">>, <<"N","o","t","_","I","n">>,
      <<"w","a","r","n","i","n","g">>, <<"c","o","n","s","t","a","n","t">>,
      <<"n","O","n","E">>, <<"d","a","y","s">>, <<"W","e","e","k">>,
      <<"y","e","a","r","l","y">> }

Keys == SeqsUpTo(KeyAlphabet, MaxKeyLen) \cup KeySamples

FormatInit ==
    /\ UploadInit
    /\ key \in Keys
    /\ passes = <<>>
    /\ displayed = <<>>

ApplyFormatKey ==
    /\ Len(passes) < MaxPasses
    /\ passes' = Append(passes,
                        formatKey(IF passes = <<>> THEN key ELSE passes[Len(passes)]))
    /\ UNCHANGED <<key, displayed, uploadVars>>

ApplyFormatters ==
    /\ displayed = <<>>
    /\ displayed' = << [ constraint |-> formatConstraint(key),
                     exceptionType |-> formatExceptionType(key),
                     selector |-> formatSelector(key),
                     unit |-> formatUnit(key) ] >>
    /\ UNCHANGED <<key, passes, uploadVars>>

FormatNext == ApplyFormatKey \/ ApplyFormatters

FormatSpec == FormatInit /\ [][FormatNext]_vars

\* C9: the generic humanizer is idempotent: every further pass of formatKey
\* over its own result returns the result of the first pass.
C9_FormatKeyIdempotent ==
    \A i \in 1..Len(passes) : passes[i] = passes[1]

\* C9 witness: a code with a capital and an underscore has been humanized
\* twice, and the first pass changed it.
C9_Witness ==
    /\ Len(passes) = 2
    /\ \E i \in 1..Len(key) : IsUpper(key[i])
    /\ \E i \in 1..Len(key) : key[i] = "_"
    /\ passes[1] # key
    /\ Len(passes[1]) >= 3

\* C10: the humanizer turns "SOFT_Exception" into exactly "Soft exception".
C10_SoftException ==
    (key = SOFT_Exception /\ passes # <<>>) => passes[1] = Soft_exception

\* what a formatter whose dictionary is mappings is to return for a code
DisplayText(mappings, code) ==
    IF \E known \in DOMAIN mappings : Str(toUpperCase(code)) = known
    THEN mappings[CHOOSE known \in DOMAIN mappings : Str(toUpperCase(code)) = known]
    ELSE Str(formatKey(code))

\* C17: for a code that is not the empty text each of the four formatters
\* returns the text of its dictionary when the code, put in upper case,
\* is one of the dictionary's codes, and the result of formatKey on the
\* code as written when it is not.
C17_DictionaryThenHumanizer ==
    (displayed # <<>> /\ key # <<>>) =>
        /\ displayed[1].constraint = DisplayText(constraintMappings, key)
        /\ displayed[1].exceptionType = DisplayText(exceptionMappings, key)
        /\ displayed[1].selector = DisplayText(selectorMappings, key)
        /\ displayed[1].unit = DisplayText(unitMappings, key)

\* C17 witness: a code in lower or mixed case that one dictionary knows
\* has been formatted, by that dictionary's formatter to the dictionary's
\* text and by another formatter to what formatKey makes of it.
C17_Witness ==
    /\ displayed # <<>>
    /\ key = <<"N","o","t","_","I","n">>
    /\ displayed[1].constraint = "is not in"
    /\ displayed[1].selector = "Not in"
    /\ displayed[1].selector = Str(formatKey(key))

====
